---------------------------- MODULE Spec2Model ----------------------------
(***************************************************************************)
(* Model of the specification-based test generator                         *)
(* (src/.mcp/spec_test_generator.py): parameter normalisation, derivation  *)
(* of default equivalence classes and boundaries, case generation, the    *)
(* restricted oracle evaluator, the JUnit renderer and the driver          *)
(* generate_and_render.                                                    *)
(*                                                                         *)
(* Python values are records [k, n, d, u]:                                 *)
(*   k = "int"   : the integer n (d = 1, u = 0)                            *)
(*   k = "float" : the rational n/d in lowest terms, d > 0, moved by u     *)
(*                 units in the last place (u in -1..1; math.nextafter)    *)
(*   k = "none"  : None                                                    *)
(*   k = "str"   : a string, the n-th of some distinct strings             *)
(* Floats are modelled as exact rationals.  The floats the generator       *)
(* builds (integers, halves, quarters) are exact in binary64 too; a        *)
(* quotient of the evaluator such as 2/3 stands for the nearest double.    *)
(*                                                                         *)
(* Also modelled: the HTTP calculator service (src/app.py, src/tools.py,   *)
(* src/utils.py), whose texts are TLA+ strings and whose JSON values are   *)
(* records tagged by t, and the git automation (src/git_tools.py), whose   *)
(* commands are answered by the environment.                               *)
(***************************************************************************)
EXTENDS Integers, Sequences, FiniteSets, TLC

VARIABLES
    call,        \* the function last called: "idle", "normalize_spec", "generate_cases",
                 \* "_eval_oracle", "_midpoint", "render_junit", "generate_and_render",
                 \* "handle", "mcp_endpoint", "GitAutomation", "git_status",
                 \* "automated_workflow"
    spec,        \* the specification mapping passed to the call (its "params" list)
    params_obj,  \* new_spec["_params_obj"]: the list of ParamSpec built by normalize_spec
    result,      \* the mapping returned by generate_cases: counts, cases, nominal
    expr,        \* the syntax tree ast.parse gave for the oracle expression
    env,         \* the inputs mapping handed to _eval_oracle
    value,       \* what _eval_oracle returned (None is the failure value)
    raised,      \* the exception that left _eval_oracle, "" when none did
    case_list,   \* the case list handed to render_junit
    write_files, \* the write_files argument of generate_and_render
    junit,       \* the source render_junit returned, by its parts
    ret,         \* the mapping returned by generate_and_render: summary, file, nominal, cases
    files,       \* the files written so far: path and content
    heap,        \* the mapping objects after normalize_spec or generate_cases: the caller's
                 \* "spec", the copy "new_spec" and the "returned" result["spec"]
    request,     \* the request a POST handler was given: whether its body parses, and the body
    response,    \* the response the handler gave: status code and content
    invoked,     \* the tools the handler called, in order
    answers,     \* what the commands of a git operation answer when it runs them
    create_pr,   \* the create_pr argument of automated_workflow
    outcome      \* what the git operation returned or raised; for automated_workflow the
                 \* results and the methods it called

vars == <<call, spec, params_obj, result, expr, env, value, raised,
          case_list, write_files, junit, ret, files, heap,
         request, response, invoked, answers, create_pr, outcome>>

---------------------------------------------------------------------------
(* Bounds of the model *)

\* parameters per specification
MaxParams == 2
\* the integers _midpoint is applied to range over -MidBound..MidBound
MidBound == 8
\* integer domains range over -DomBound..DomBound (plus the spec's examples)
DomBound == 3
\* integer literals of the arithmetic expressions range over 1..MaxLit
MaxLit == 2
\* the variables of the arithmetic expressions range over -EnvBound..EnvBound
EnvBound == 2

---------------------------------------------------------------------------
(* Python values *)

IntV(i) == [k |-> "int", n |-> i, d |-> 1, u |-> 0]
NoneV == [k |-> "none", n |-> 0, d |-> 1, u |-> 0]
\* the i-th of some distinct strings
StrV(i) == [k |-> "str", n |-> i, d |-> 1, u |-> 0]

Abs(i) == IF i < 0 THEN -i ELSE i

RECURSIVE GCD(_, _)
GCD(a, b) == IF b = 0 THEN a ELSE GCD(b, a % b)

\* the float n/d, in lowest terms with a positive denominator
FloatV(i, j) ==
    LET s == IF j < 0 THEN -1 ELSE 1
        g == GCD(Abs(i), Abs(j))
    IN  [k |-> "float", n |-> (s * i) \div g, d |-> (s * j) \div g, u |-> 0]

IsNum(v) == v.k \in {"int", "float"}
IsFloat(v) == v.k = "float"

\* float(v)
ToFloat(v) == FloatV(v.n, v.d)

\* int(v): truncation toward zero
IntOf(v) == IF v.n >= 0 THEN v.n \div v.d ELSE -((-v.n) \div v.d)

\* a <= b on numbers
NumLe(a, b) == a.n * b.d <= b.n * a.d

\* (float(lo) + float(hi)) / 2.0
FloatAvg(lo, hi) == FloatV(lo.n * hi.d + hi.n * lo.d, 2 * lo.d * hi.d)

\* math.nextafter(v, +inf) for dir = 1, math.nextafter(v, -inf) for dir = -1
NextAfter(v, dir) == [v EXCEPT !.u = dir]

INT_TYPES == {"int", "long", "short", "byte"}
FLOAT_TYPES == {"float", "double"}

---------------------------------------------------------------------------
(* ParamSpec helpers *)

\* p.domain and "min" in p.domain and "max" in p.domain
HasMinMax(dom) == dom.hasMin /\ dom.hasMax

NoDomain == [hasMin |-> FALSE, hasMax |-> FALSE, hasValues |-> FALSE,
             min |-> NoneV, max |-> NoneV, values |-> <<>>]
MinMaxDomain(lo, hi) == [NoDomain EXCEPT !.hasMin = TRUE, !.hasMax = TRUE, !.min = lo, !.max = hi]
ValuesDomain(vs) == [NoDomain EXCEPT !.hasValues = TRUE, !.values = vs]

\* {"name": nm, "range": [lo, hi]}
RangeEC(nm, lo, hi) == [name |-> nm, hasValues |-> FALSE, values |-> <<>>,
                        hasRange |-> TRUE, lo |-> lo, hi |-> hi]
\* {"name": nm, "values": vs}
ValuesEC(nm, vs) == [name |-> nm, hasValues |-> TRUE, values |-> vs,
                     hasRange |-> FALSE, lo |-> NoneV, hi |-> NoneV]

\* AppendNew without the "c not in b" test
RECURSIVE AppendNoDedup(_, _, _, _)
AppendNoDedup(b, cs, min_v, max_v) ==
    IF cs = <<>> THEN b
    ELSE LET c == Head(cs)
         IN  AppendNoDedup(IF min_v <= c /\ c <= max_v THEN Append(b, c) ELSE b,
                           Tail(cs), min_v, max_v)

\* for c in cs: if min_v <= c <= max_v and c not in b: b.append(c)
RECURSIVE AppendNew(_, _, _, _)
AppendNew(b, cs, min_v, max_v) ==
    IF cs = <<>> THEN b
    ELSE LET c == Head(cs)
             present == \E i \in 1..Len(b) : b[i] = c
         IN  AppendNew(IF min_v <= c /\ c <= max_v /\ ~present THEN Append(b, c) ELSE b,
                       Tail(cs), min_v, max_v)

\* one element more than the cap
TakeOneMore(xs, cap) == SubSeq(xs, 1, IF Len(xs) < cap + 1 THEN Len(xs) ELSE cap + 1)

\* the first cap elements of xs: list(xs)[:cap]
Take(xs, cap) == SubSeq(xs, 1, IF Len(xs) < cap THEN Len(xs) ELSE cap)

\* number of values an enumerated domain contributes classes for
EnumCap == 3

\* f"value_{i}" for the indexes enumerate() yields below EnumCap
ValueName(i) == <<"value_0", "value_1", "value_2", "value_3">>[i + 1]

\* (min_v + max_v) / 2 cut towards zero
MidpointTruncated(min_v, max_v) ==
    IF min_v + max_v >= 0 THEN (min_v + max_v) \div 2 ELSE -((-(min_v + max_v)) \div 2)

\* _midpoint of two ints
_midpoint(min_v, max_v) == min_v + (max_v - min_v) \div 2

\* _derive_default_equivalence_classes with "max_v >= 0" for the positive class
DeriveClassesPositiveAtZero(p) ==
    IF p.type \in INT_TYPES /\ HasMinMax(p.domain) THEN
        LET min_v == IntOf(p.domain.min)
            max_v == IntOf(p.domain.max)
            zero_in == (min_v <= 0 /\ 0 <= max_v)
        IN  (IF min_v < 0 THEN <<RangeEC("negative", IntV(min_v), IntV(-1))>> ELSE <<>>)
            \o (IF zero_in THEN <<ValuesEC("zero", <<IntV(0)>>)>> ELSE <<>>)
            \o (IF max_v >= 0 THEN <<RangeEC("positive", IntV(1), IntV(max_v))>> ELSE <<>>)
    ELSE IF p.type \in FLOAT_TYPES /\ HasMinMax(p.domain) THEN
        LET min_v == ToFloat(p.domain.min)
            max_v == ToFloat(p.domain.max)
        IN  << RangeEC("low", min_v, FloatAvg(min_v, max_v)),
               RangeEC("high", FloatAvg(min_v, max_v), max_v) >>
    ELSE IF p.domain.hasValues THEN
        LET vals == Take(p.domain.values, EnumCap)
        IN  [i \in 1..Len(vals) |-> ValuesEC(ValueName(i - 1), <<vals[i]>>)]
    ELSE
        << ValuesEC("nominal", <<IF p.type \in INT_TYPES THEN IntV(0) ELSE NoneV>>) >>

_derive_default_equivalence_classes(p) ==
    IF p.type \in INT_TYPES /\ HasMinMax(p.domain) THEN
        LET min_v == IntOf(p.domain.min)
            max_v == IntOf(p.domain.max)
            zero_in == (min_v <= 0 /\ 0 <= max_v)
        IN  (IF min_v < 0 THEN <<RangeEC("negative", IntV(min_v), IntV(-1))>> ELSE <<>>)
            \o (IF zero_in THEN <<ValuesEC("zero", <<IntV(0)>>)>> ELSE <<>>)
            \o (IF max_v > 0 THEN <<RangeEC("positive", IntV(1), IntV(max_v))>> ELSE <<>>)
    ELSE IF p.type \in FLOAT_TYPES /\ HasMinMax(p.domain) THEN
        LET min_v == ToFloat(p.domain.min)
            max_v == ToFloat(p.domain.max)
        IN  << RangeEC("low", min_v, FloatAvg(min_v, max_v)),
               RangeEC("high", FloatAvg(min_v, max_v), max_v) >>
    ELSE IF p.domain.hasValues THEN
        LET vals == Take(p.domain.values, EnumCap)
        IN  [i \in 1..Len(vals) |-> ValuesEC(ValueName(i - 1), <<vals[i]>>)]
    ELSE
        << ValuesEC("nominal", <<IF p.type \in INT_TYPES THEN IntV(0) ELSE NoneV>>) >>

_derive_default_boundaries(p) ==
    IF p.type \in INT_TYPES /\ HasMinMax(p.domain) THEN
        LET min_v == IntOf(p.domain.min)
            max_v == IntOf(p.domain.max)
            candidates == <<min_v, min_v + 1, max_v - 1, max_v>>
            b == AppendNew(<<>>, candidates, min_v, max_v)
            bz == AppendNew(b, <<-1, 0, 1>>, min_v, max_v)
        IN  [i \in 1..Len(bz) |-> IntV(bz[i])]
    ELSE IF p.type \in FLOAT_TYPES /\ HasMinMax(p.domain) THEN
        LET min_v == ToFloat(p.domain.min)
            max_v == ToFloat(p.domain.max)
            mid == FloatAvg(min_v, max_v)
        IN  <<min_v, NextAfter(min_v, 1), NextAfter(max_v, -1), max_v, mid>>
    ELSE
        <<>>

\* the part of _nominal_value after the equivalence classes: domain, then type default
NominalFromDomain(p) ==
    IF p.domain.hasValues /\ p.domain.values # <<>> THEN p.domain.values[1]
    ELSE IF HasMinMax(p.domain) /\ p.type \in INT_TYPES
        THEN IntV(_midpoint(IntOf(p.domain.min), IntOf(p.domain.max)))
    ELSE IF HasMinMax(p.domain) /\ p.type \in FLOAT_TYPES
        THEN FloatAvg(p.domain.min, p.domain.max)
    ELSE IF p.type \in INT_TYPES THEN IntV(0)
    ELSE IF p.type \in FLOAT_TYPES THEN FloatV(0, 1)
    ELSE NoneV

\* _nominal_value without the equivalence-class branch
NominalIgnoringClasses(p) == NominalFromDomain(p)

_nominal_value(p) ==
    IF p.equivalence_classes # <<>> THEN
        LET ec == p.equivalence_classes[1]
        IN  IF ec.hasValues /\ Len(ec.values) > 0 THEN ec.values[1]
            ELSE IF ec.hasRange THEN
                IF IsFloat(ec.lo) \/ IsFloat(ec.hi) THEN FloatAvg(ec.lo, ec.hi)
                ELSE IntV(_midpoint(IntOf(ec.lo), IntOf(ec.hi)))
            ELSE NominalFromDomain(p)
    ELSE NominalFromDomain(p)

_representative_from_ec(ec, p) ==
    IF ec.hasValues /\ ec.values # <<>> THEN ec.values[1]
    ELSE IF ec.hasRange THEN
        IF p.type \in INT_TYPES THEN IntV(_midpoint(IntOf(ec.lo), IntOf(ec.hi)))
        ELSE FloatAvg(ec.lo, ec.hi)
    ELSE _nominal_value(p)

---------------------------------------------------------------------------
(* normalize_spec and generate_cases *)

\* an optional list of a raw parameter descriptor: p.get(key) is None or a list
Absent == [given |-> FALSE, list |-> <<>>]
Given(xs) == [given |-> TRUE, list |-> xs]

\* ParamSpec(...) of one raw descriptor, with the defaults filled in
NormalizeParam(rp) ==
    LET ps == [name |-> rp.name,
               type |-> IF rp.hasType THEN rp.type ELSE "int",
               domain |-> rp.domain]
        ecs == IF rp.equivalence_classes.given THEN rp.equivalence_classes.list
               ELSE _derive_default_equivalence_classes(ps)
        bs  == IF rp.boundaries.given THEN rp.boundaries.list
               ELSE _derive_default_boundaries(ps)
    IN  [name |-> ps.name, type |-> ps.type, domain |-> ps.domain,
         equivalence_classes |-> ecs, boundaries |-> bs]

\* new_spec["_params_obj"]
normalize_spec(sp) == [i \in 1..Len(sp.params) |-> NormalizeParam(sp.params[i])]

\* "new_spec = spec": the name bound to the caller's object, no object made
DictAlias(h, ref, new) == [heap |-> h, ref |-> ref]

\* dict(spec): a new mapping object holding the items of the object ref
dict(h, ref, new) == [heap |-> (new :> h[ref]) @@ h, ref |-> new]

\* the mapping objects when normalize_spec(sp) returns, and the object returned
NormalizeObjects(sp) ==
    LET new_spec == dict(("spec" :> sp), "spec", "new_spec")
    IN  [heap |-> [new_spec.heap EXCEPT
                      ![new_spec.ref] = ("_params_obj" :> normalize_spec(sp)) @@ @],
         ref |-> new_spec.ref]

ParamNames(params) == {params[i].name : i \in 1..Len(params)}

\* the last parameter called nm: a later dict assignment replaces an earlier one
LastNamed(params, nm) ==
    params[CHOOSE i \in 1..Len(params) :
              /\ params[i].name = nm
              /\ \A j \in (i + 1)..Len(params) : params[j].name # nm]

\* {p.name: _nominal_value(p) for p in params}
NominalVector(params) ==
    [nm \in ParamNames(params) |-> _nominal_value(LastNamed(params, nm))]

\* inputs = {name: v}: the baseline is dropped
SubstituteAlone(nominal, nm, v) == [x \in {nm} |-> v]

\* inputs = dict(nominal); inputs[name] = v
Substitute(nominal, nm, v) == [x \in DOMAIN nominal |-> IF x = nm THEN v ELSE nominal[x]]

\* a case mapping; the keys a case type does not carry hold "" or None
Case(type, param, class, boundary, label, inputs) ==
    [type |-> type, param |-> param, class |-> class, boundary |-> boundary,
     label |-> label, inputs |-> inputs]

\* the equivalence cases of parameters i.., in the order of the two nested loops
RECURSIVE EquivalenceCases(_, _, _)
EquivalenceCases(params, i, nominal) ==
    IF i > Len(params) THEN <<>>
    ELSE LET p == params[i]
         IN  [j \in 1..Len(p.equivalence_classes) |->
                 Case("equivalence", p.name, p.equivalence_classes[j].name, NoneV, "",
                      Substitute(nominal, p.name,
                                 _representative_from_ec(p.equivalence_classes[j], p)))]
             \o EquivalenceCases(params, i + 1, nominal)

\* the boundary cases of parameters i.., in the order of the two nested loops
RECURSIVE BoundaryCases(_, _, _)
BoundaryCases(params, i, nominal) ==
    IF i > Len(params) THEN <<>>
    ELSE LET p == params[i]
         IN  [j \in 1..Len(p.boundaries) |->
                 Case("boundary", p.name, "", p.boundaries[j], "",
                      Substitute(nominal, p.name, p.boundaries[j]))]
             \o BoundaryCases(params, i + 1, nominal)

\* the parameters the all-min/all-max loop records a min and max for
WithMinMax(params) ==
    {i \in 1..Len(params) : Len(params[i].boundaries) >= 1 /\ HasMinMax(params[i].domain)}

\* have_all_min_max set by any parameter instead of cleared by any
HaveSomeMinMax(params) == \E i \in 1..Len(params) : i \in WithMinMax(params)

\* have_all_min_max after the loop
have_all_min_max(params) == \A i \in 1..Len(params) : i \in WithMinMax(params)

\* all_min (which = "min") and all_max (which = "max") after the loop
AllExtreme(params, which) ==
    LET names == {params[i].name : i \in WithMinMax(params)}
        last(nm) == params[CHOOSE i \in WithMinMax(params) :
                              /\ params[i].name = nm
                              /\ \A j \in WithMinMax(params) : j > i => params[j].name # nm]
    IN  [nm \in names |-> IF which = "min" THEN last(nm).domain.min ELSE last(nm).domain.max]

\* the cases appended by "if have_all_min_max and all_min and all_max"
ComboCases(params) ==
    IF /\ have_all_min_max(params)
       /\ DOMAIN AllExtreme(params, "min") # {}
       /\ DOMAIN AllExtreme(params, "max") # {}
    THEN << Case("boundary-combo", "", "", NoneV, "all-min", AllExtreme(params, "min")),
            Case("boundary-combo", "", "", NoneV, "all-max", AllExtreme(params, "max")) >>
    ELSE <<>>

\* BuildCases with the boundary loop ahead of the equivalence loop
BuildCasesBoundaryFirst(params, nominal) ==
    BoundaryCases(params, 1, nominal) \o EquivalenceCases(params, 1, nominal) \o ComboCases(params)

\* the case list generate_cases builds from the normalized parameters
BuildCases(params, nominal) ==
    EquivalenceCases(params, 1, nominal) \o BoundaryCases(params, 1, nominal) \o ComboCases(params)

\* the type compared with "==" where the code uses startswith
CountTypeExact(cases, types) ==
    Cardinality({i \in 1..Len(cases) : cases[i].type \in types \cap {"equivalence", "boundary"}})

\* sum(1 for c in cases if c["type"] ...), over the case types of the model
CountType(cases, types) == Cardinality({i \in 1..Len(cases) : cases[i].type \in types})

generate_cases(sp) ==
    LET params == normalize_spec(sp)
        nominal == NominalVector(params)
        cases == BuildCases(params, nominal)
    IN  [counts |-> [total |-> Len(cases),
                     equivalence |-> CountType(cases, {"equivalence"}),
                     boundary |-> CountType(cases, {"boundary", "boundary-combo"})],
         cases |-> cases,
         nominal |-> nominal]

\* the mapping objects when generate_cases(sp) returns: the local spec is the
\* object normalize_spec returned, result["spec"] its items but "_params_obj"
GenerateObjects(sp) ==
    LET n == NormalizeObjects(sp)
    IN  ("returned" :> [k \in DOMAIN n.heap[n.ref] \ {"_params_obj"} |-> n.heap[n.ref][k]])
        @@ n.heap

NoResult == [counts |-> [total |-> 0, equivalence |-> 0, boundary |-> 0],
             cases |-> <<>>, nominal |-> <<>>]

---------------------------------------------------------------------------
(* SafeExprEvaluator and _eval_oracle *)

(* A syntax tree node is a record [tag, n, id, op, kids, kw]:                *)
(*   Expression : kids = <<body>>                                            *)
(*   Num        : n = the number (ast.Num: an int, float or complex literal) *)
(*   Name       : id = the name                                              *)
(*   UnaryOp    : op, kids = <<operand>>                                     *)
(*   BinOp      : op, kids = <<left, right>>                                 *)
(*   Call       : kids = <<func>> \o args, kw = the keyword values           *)
(*   Attribute  : kids = <<value>>, id = the attribute                       *)
(*   Str, List, Starred, ... : nodes of other classes                        *)
(* The tag SyntaxError stands for a string ast.parse rejects.                *)
Node(tag, n, id, op, kids, kw) ==
    [tag |-> tag, n |-> n, id |-> id, op |-> op, kids |-> kids, kw |-> kw]

\* the node classes of allowed_nodes that occur as expressions (Load and the operator
\* classes occur only as fields, which visit never receives)
allowed_nodes == {"Expression", "BinOp", "UnaryOp", "Num", "Name", "Call"}

allowed_funcs == {"abs", "min", "max", "round"}

\* the outcome of evaluating something: a value, or an exception on its way up
Ok(v) == [exc |-> "", val |-> v]
Raise(e) == [exc |-> e, val |-> NoneV]

RECURSIVE IPow(_, _)
IPow(b, e) == IF e = 0 THEN 1 ELSE b * IPow(b, e - 1)

\* the result of an arithmetic operator on a and b: an int when both are ints
Num(a, b, i, j) == IF a.k = "int" /\ b.k = "int" THEN IntV(i \div j) ELSE FloatV(i, j)

\* num // den on integers, den # 0, as C's division computes it
TruncQuot(num, den) ==
    LET q == Abs(num) \div Abs(den)
    IN  IF (num < 0) = (den < 0) THEN q ELSE -q

\* num // den on integers, den # 0
FloorQuot(num, den) == num \div den

\* a // b as an integer, b # 0
FloorOf(a, b) == FloorQuot(a.n * b.d, a.d * b.n)

\* a ** b for an integral exponent b
PowOp(a, b) ==
    LET e == b.n
    IN  IF e >= 0 THEN Ok(Num(a, b, IPow(a.n, e), IPow(a.d, e)))
        ELSE IF a.n = 0 THEN Raise("ZeroDivisionError")
        ELSE Ok(FloatV(IPow(a.d, -e), IPow(a.n, -e)))

_apply_op(op, a, b) ==
    IF op \notin {"Add", "Sub", "Mult", "Div", "FloorDiv", "Mod", "Pow"} THEN Raise("ValueError")
    ELSE IF ~(IsNum(a) /\ IsNum(b)) THEN Raise("TypeError")
    ELSE IF a.u # 0 \/ b.u # 0 THEN Raise("Unmodelled")
    ELSE CASE op = "Add" -> Ok(Num(a, b, a.n * b.d + b.n * a.d, a.d * b.d))
           [] op = "Sub" -> Ok(Num(a, b, a.n * b.d - b.n * a.d, a.d * b.d))
           [] op = "Mult" -> Ok(Num(a, b, a.n * b.n, a.d * b.d))
           [] op = "Div" ->
                IF b.n = 0 THEN Raise("ZeroDivisionError")
                ELSE Ok(FloatV(a.n * b.d, a.d * b.n))
           [] op = "FloorDiv" ->
                IF b.n = 0 THEN Raise("ZeroDivisionError")
                ELSE Ok(Num(a, b, FloorOf(a, b), 1))
           [] op = "Mod" ->
                IF b.n = 0 THEN Raise("ZeroDivisionError")
                ELSE Ok(Num(a, b, a.n * b.d - FloorOf(a, b) * b.n * a.d, a.d * b.d))
           [] op = "Pow" ->
                IF b.d # 1 THEN Raise("Unmodelled") ELSE PowOp(a, b)

\* the integer nearest to i/j, j > 0, ties to the even one
RoundHalfEven(i, j) ==
    LET f == i \div j
        twice == 2 * (i - f * j)
    IN  IF twice < j THEN f
        ELSE IF twice > j THEN f + 1
        ELSE IF f % 2 = 0 THEN f ELSE f + 1

\* the first least (which = "min") or greatest element of the numbers xs
RECURSIVE Extreme(_, _, _)
Extreme(which, best, xs) ==
    IF xs = <<>> THEN best
    ELSE LET x == Head(xs)
             better == IF which = "min" THEN ~NumLe(best, x) ELSE ~NumLe(x, best)
         IN  Extreme(which, IF better THEN x ELSE best, Tail(xs))

\* round(x, nd) for an int nd
RoundDigits(x, nd) ==
    IF x.k = "int" THEN
        IF nd >= 0 THEN Ok(x)
        ELSE Ok(IntV(RoundHalfEven(x.n, IPow(10, -nd)) * IPow(10, -nd)))
    ELSE IF nd >= 0 THEN Ok(FloatV(RoundHalfEven(x.n * IPow(10, nd), x.d), IPow(10, nd)))
    ELSE Ok(FloatV(RoundHalfEven(x.n, x.d * IPow(10, -nd)) * IPow(10, -nd), 1))

\* allowed_funcs[f](*args): the builtins abs, min, max and round
CallBuiltin(f, args) ==
    IF \E i \in 1..Len(args) : args[i].u # 0 THEN Raise("Unmodelled")
    ELSE CASE f = "abs" ->
                IF Len(args) # 1 \/ ~IsNum(args[1]) THEN Raise("TypeError")
                ELSE Ok([args[1] EXCEPT !.n = Abs(args[1].n)])
           [] f \in {"min", "max"} ->
                IF Len(args) < 2 \/ \E i \in 1..Len(args) : ~IsNum(args[i]) THEN Raise("TypeError")
                ELSE Ok(Extreme(f, args[1], Tail(args)))
           [] f = "round" ->
                IF Len(args) \notin {1, 2} \/ ~IsNum(args[1]) THEN Raise("TypeError")
                ELSE IF Len(args) = 1 \/ args[2].k = "none" THEN
                    Ok(IntV(RoundHalfEven(args[1].n, args[1].d)))
                ELSE IF args[2].k # "int" THEN Raise("TypeError")
                ELSE RoundDigits(args[1], args[2].n)

\* SafeExprEvaluator(e).visit(node), and the visits of a list of nodes in order
RECURSIVE visit(_, _), VisitAll(_, _)
visit(node, e) ==
    IF node.tag \notin allowed_nodes THEN Raise("ValueError")
    ELSE CASE node.tag = "Expression" -> visit(node.kids[1], e)
           [] node.tag = "BinOp" ->
                LET left == visit(node.kids[1], e)
                    right == visit(node.kids[2], e)
                IN  IF left.exc # "" THEN left
                    ELSE IF right.exc # "" THEN right
                    ELSE _apply_op(node.op, left.val, right.val)
           [] node.tag = "UnaryOp" ->
                LET operand == visit(node.kids[1], e)
                IN  IF operand.exc # "" THEN operand
                    ELSE IF node.op \in {"USub", "UAdd"} THEN
                        IF ~IsNum(operand.val) THEN Raise("TypeError")
                        ELSE IF node.op = "USub"
                            THEN Ok([operand.val EXCEPT !.n = -operand.val.n, !.u = -operand.val.u])
                        ELSE operand
                    ELSE Raise("ValueError")
           [] node.tag = "Num" -> Ok(node.n)
           [] node.tag = "Name" ->
                IF node.id \in DOMAIN e THEN Ok(e[node.id]) ELSE Raise("ValueError")
           [] node.tag = "Call" ->
                LET func == node.kids[1]
                IN  IF func.tag # "Name" \/ func.id \notin allowed_funcs THEN Raise("ValueError")
                    ELSE LET args == VisitAll(Tail(node.kids), e)
                         IN  IF args.exc # "" THEN Raise(args.exc)
                             ELSE CallBuiltin(func.id, args.vals)

VisitAll(nodes, e) ==
    IF nodes = <<>> THEN [exc |-> "", vals |-> <<>>]
    ELSE LET first == visit(Head(nodes), e)
         IN  IF first.exc # "" THEN [exc |-> first.exc, vals |-> <<>>]
             ELSE LET rest == VisitAll(Tail(nodes), e)
                  IN  IF rest.exc # "" THEN rest
                      ELSE [exc |-> "", vals |-> <<first.val>> \o rest.vals]

\* an except clause that names ValueError only
CaughtValueErrorOnly(e) == e = "ValueError"

\* "except Exception" catches e
CaughtByExcept(e) ==
    e \in {"SyntaxError", "ValueError", "TypeError", "ZeroDivisionError", "OverflowError"}

\* _eval_oracle(tree, inputs): what it returns and the exception that leaves it
_eval_oracle(tree, inputs) ==
    LET out == IF tree.tag = "SyntaxError" THEN Raise("SyntaxError") ELSE visit(tree, inputs)
    IN  IF out.exc = "" THEN [value |-> out.val, raised |-> ""]
        ELSE IF CaughtByExcept(out.exc) THEN [value |-> NoneV, raised |-> ""]
        ELSE [value |-> NoneV, raised |-> out.exc]

---------------------------------------------------------------------------
(* The specifications the generator is run on *)

RawParam(type, domain, ecs, bs) ==
    [name |-> "", hasType |-> TRUE, type |-> type, domain |-> domain,
     equivalence_classes |-> ecs, boundaries |-> bs]

\* [min, max] pairs of integer domains: all of -DomBound..DomBound and the spec's examples
IntDomains ==
    {<<lo, hi>> \in (-DomBound..DomBound) \X (-DomBound..DomBound) : lo <= hi}
    \cup {<<0, 10>>, <<1, 100>>, <<-5, 5>>, <<-10, -8>>, <<5, 10>>}

IntDomainParams ==
    {RawParam("int", MinMaxDomain(IntV(d[1]), IntV(d[2])), Absent, Absent) : d \in IntDomains}

FloatDomainParams ==
    {RawParam("double", MinMaxDomain(FloatV(d[1], 1), FloatV(d[2], 1)), Absent, Absent) :
        d \in {<<0, 10>>, <<-1, 1>>, <<1, 2>>}}
    \cup {RawParam("float", MinMaxDomain(IntV(0), IntV(10)), Absent, Absent)}

EnumValues == <<StrV(1), StrV(2), StrV(3), StrV(4), StrV(5)>>

EnumParams ==
    {RawParam("String", ValuesDomain(SubSeq(EnumValues, 1, n)), Absent, Absent) : n \in 0..5}
    \cup {RawParam("int", ValuesDomain(<<IntV(7), IntV(8)>>), Absent, Absent)}

OtherDerivedParams ==
    { RawParam("int", NoDomain, Absent, Absent),
      RawParam("String", NoDomain, Absent, Absent),
      RawParam("double", NoDomain, Absent, Absent),
      RawParam("long", MinMaxDomain(IntV(-2), IntV(7)), Absent, Absent),
      RawParam("String", MinMaxDomain(IntV(0), IntV(3)), Absent, Absent),
      [RawParam("int", MinMaxDomain(IntV(-1), IntV(2)), Absent, Absent) EXCEPT !.hasType = FALSE],
      RawParam("int", [NoDomain EXCEPT !.hasMin = TRUE, !.min = IntV(0)], Absent, Absent) }

ExplicitParams ==
    { RawParam("int", MinMaxDomain(IntV(0), IntV(10)),
               Given(<<RangeEC("small", IntV(1), IntV(4)), ValuesEC("big", <<IntV(9), IntV(10)>>)>>),
               Absent),
      RawParam("int", MinMaxDomain(IntV(0), IntV(10)), Given(<<>>), Absent),
      RawParam("int", MinMaxDomain(IntV(0), IntV(10)), Absent, Given(<<>>)),
      RawParam("int", MinMaxDomain(IntV(0), IntV(10)), Absent, Given(<<IntV(3), IntV(3)>>)),
      RawParam("int", NoDomain, Absent, Given(<<IntV(5)>>)),
      RawParam("double", MinMaxDomain(FloatV(0, 1), FloatV(4, 1)),
               Given(<<RangeEC("ints", IntV(1), IntV(4))>>), Absent),
      RawParam("int", NoDomain,
               Given(<<[ValuesEC("anon", <<>>) EXCEPT !.hasValues = FALSE]>>), Absent) }

\* the descriptors one parameter of a specification ranges over
FocusParams ==
    IntDomainParams \cup FloatDomainParams \cup EnumParams \cup OtherDerivedParams \cup ExplicitParams

\* the descriptors the other parameters of a specification range over
OtherParams ==
    { RawParam("int", MinMaxDomain(IntV(-5), IntV(5)), Absent, Absent),
      RawParam("int", NoDomain, Absent, Absent),
      RawParam("double", MinMaxDomain(FloatV(0, 1), FloatV(10, 1)), Absent, Absent),
      RawParam("String", ValuesDomain(<<StrV(1), StrV(2)>>), Absent, Absent),
      RawParam("int", MinMaxDomain(IntV(1), IntV(2)), Absent, Given(<<IntV(1)>>)) }

\* parameter names, by position in the declaration
NameAt(i) == <<"a", "b", "c", "d">>[i]

SpecsOfLen(n) ==
    {[params |-> [i \in 1..n |->
                     [(IF i = f THEN fp ELSE o[i]) EXCEPT !.name = NameAt(i)]]] :
        f \in 1..n, fp \in FocusParams, o \in [1..n -> OtherParams]}

Specs == {[params |-> <<>>]} \cup UNION {SpecsOfLen(n) : n \in 1..MaxParams}

---------------------------------------------------------------------------
(* The expressions and environments the evaluator is run on *)

Lit(i) == Node("Num", IntV(i), "", "", <<>>, <<>>)
Var(x) == Node("Name", NoneV, x, "", <<>>, <<>>)
Un(op, x) == Node("UnaryOp", NoneV, "", op, <<x>>, <<>>)
Bin(op, l, r) == Node("BinOp", NoneV, "", op, <<l, r>>, <<>>)
CallOf(f, args, kw) == Node("Call", NoneV, "", "", <<f>> \o args, kw)
Attr(v, a) == Node("Attribute", NoneV, a, "", <<v>>, <<>>)
Other(tag, kids) == Node(tag, NoneV, "", "", kids, <<>>)
Root(body) == Node("Expression", NoneV, "", "", <<body>>, <<>>)
\* no expression
NoExpr == Node("", NoneV, "", "", <<>>, <<>>)

\* expressions over integer literals, a and b with unary +/- and + - * // %
ArithLeaves == {Lit(i) : i \in 1..MaxLit} \cup {Var("a"), Var("b")}
ArithOps == {"Add", "Sub", "Mult", "FloorDiv", "Mod"}
ArithBin == {Bin(op, l, r) : op \in ArithOps, l \in ArithLeaves, r \in ArithLeaves}
ArithUn == {Un(op, l) : op \in {"USub", "UAdd"}, l \in ArithLeaves}
ArithNested ==
    {Bin(op, x, l) : op \in ArithOps, x \in ArithBin \cup ArithUn, l \in ArithLeaves}
    \cup {Bin(op, l, x) : op \in ArithOps, x \in ArithBin \cup ArithUn, l \in ArithLeaves}
    \cup {Un("USub", x) : x \in ArithBin}
ArithExprs == ArithLeaves \cup ArithBin \cup ArithUn \cup ArithNested

IntEnvs ==
    {("a" :> IntV(x) @@ "b" :> IntV(y)) : x \in -EnvBound..EnvBound, y \in -EnvBound..EnvBound}
    \cup {("a" :> IntV(-5) @@ "b" :> IntV(-5)), ("a" :> IntV(-7) @@ "b" :> IntV(2))}

\* leaves of the other expressions: zz is bound in no environment
Leaves == {Lit(0), Lit(2), Var("a"), Var("b"), Var("zz")}
LeafLists == {<<>>} \cup {<<x>> : x \in Leaves} \cup {<<x, y>> : x \in Leaves, y \in Leaves}

\* nodes of classes outside allowed_nodes: a.b, 's', [1], a < 2
Foreign ==
    { Attr(Var("a"), "b"), Other("Str", <<>>), Other("List", <<Lit(1)>>),
      Other("Compare", <<Var("a"), Lit(2)>>) }

\* a foreign node at each position of an expression
ForeignExprs ==
    UNION { { x, Bin("Add", x, Lit(1)), Bin("Add", Lit(1), x), Un("USub", x),
              Bin("Mult", Lit(2), Un("USub", x)),
              CallOf(Var("abs"), <<x>>, <<>>), CallOf(Var("max"), <<Lit(1), x>>, <<>>),
              CallOf(Var("abs"), <<Un("USub", Lit(1))>>, <<x>>),
              CallOf(Var("max"), <<Lit(1), Var("a")>>, <<x>>),
              CallOf(x, <<Lit(1)>>, <<>>) } : x \in Foreign }
    \cup { CallOf(Var("max"), <<Lit(1), Lit(2)>>, <<Var("a")>>),
           CallOf(Var("abs"), <<Other("Starred", <<Var("a")>>)>>, <<>>),
           CallOf(Var("max"), <<Lit(1), Other("Starred", <<Other("List", <<Lit(1)>>)>>)>>, <<>>),
           CallOf(Var("__import__"), <<Other("Str", <<>>)>>, <<>>),
           CallOf(Attr(CallOf(Var("__import__"), <<Other("Str", <<>>)>>, <<>>), "system"),
                  <<Other("Str", <<>>)>>, <<>>),
           Other("SyntaxError", <<>>) }

Quotients == {Bin("Div", l, r) : l \in {Var("a"), Lit(2)}, r \in {Var("b"), Lit(2)}}

\* true division, power, a foreign operator, calls, and floats flowing on
OtherExprs ==
    {Bin(op, l, r) : op \in {"Div", "Pow", "BitOr"}, l \in Leaves, r \in Leaves}
    \cup {Bin(op, l, r) : op \in ArithOps, l \in Leaves, r \in Leaves}
    \cup {Un(op, l) : op \in {"USub", "UAdd", "Invert", "Not"}, l \in Leaves}
    \cup {CallOf(Var(f), args, <<>>) : f \in allowed_funcs \cup {"__import__"}, args \in LeafLists}
    \cup UNION { { CallOf(Var("round"), <<q>>, <<>>), CallOf(Var("abs"), <<q>>, <<>>),
                   CallOf(Var("round"), <<q, Lit(0)>>, <<>>),
                   CallOf(Var("min"), <<q, Lit(0)>>, <<>>), CallOf(Var("max"), <<Lit(0), q>>, <<>>),
                   Bin("Add", q, Lit(2)), Bin("FloorDiv", q, Var("a")), Bin("Mod", q, Var("a")),
                   Bin("Mult", q, q), Un("USub", q) } : q \in Quotients }
    \cup {CallOf(Var("round"), <<l, Un("USub", Lit(1))>>, <<>>) : l \in Leaves}
    \cup ForeignExprs
    \cup Leaves

EnvValues == {IntV(0), IntV(-3), IntV(2), IntV(5), NoneV, FloatV(2, 1)}

OtherEnvs ==
    {<<>>} \cup {("a" :> v) : v \in EnvValues}
    \cup {("a" :> v @@ "b" :> w) : v \in EnvValues, w \in EnvValues}

\* the (expression, environment) pairs _eval_oracle is called with
EvalInputs == (ArithExprs \X IntEnvs) \cup (OtherExprs \X OtherEnvs)

---------------------------------------------------------------------------
(* render_junit, _java_literal, write_junit_file and generate_and_render *)

(* Strings of the rendered source are TLA+ strings, joined with \o.  A    *)
(* key a mapping does not carry holds "" (or <<>> for classUnderTest,     *)
(* which is held as the list of its dotted parts).                        *)

\* "%g" keeps this many significant digits
SigDigits == 6

\* floor(log10(n/d)) for n, d > 0
RECURSIVE Exp10(_, _)
Exp10(n, d) ==
    IF n >= 10 * d THEN Exp10(n, 10 * d) + 1
    ELSE IF n < d THEN Exp10(10 * n, d) - 1
    ELSE 0

\* the number the text of "%g" % v denotes: v rounded to SigDigits significant
\* digits ("-0", the text of -0.0, denotes 0)
FormatG(v) ==
    IF v.n = 0 THEN v
    ELSE LET s == SigDigits - 1 - Exp10(Abs(v.n), v.d)
             sign == IF v.n < 0 THEN -1 ELSE 1
             r == IF s >= 0 THEN RoundHalfEven(Abs(v.n) * IPow(10, s), v.d)
                  ELSE RoundHalfEven(Abs(v.n), v.d * IPow(10, -s))
         IN  IF s >= 0 THEN FloatV(sign * r, IPow(10, s))
             ELSE FloatV(sign * r * IPow(10, -s), 1)

\* _java_literal(v), as the value its text denotes: str(v) of an int, "%g" of a
\* float, null for None and the quoted repr of anything else
_java_literal(v) ==
    IF v.k = "int" THEN v
    ELSE IF v.k = "float" THEN FormatG(v)
    ELSE IF v.k = "none" THEN [k |-> "null", n |-> 0, d |-> 1, u |-> 0]
    ELSE [k |-> "repr", n |-> v.n, d |-> 1, u |-> 0]

\* case["type"].replace("-", "_"), for the case types of the model
ReplaceDash(type) == IF type = "boundary-combo" THEN "boundary_combo" ELSE type

\* case["type"].startswith("boundary"), for the case types of the model
StartsWithBoundary(type) == type \in {"boundary", "boundary-combo", "boundary_combo"}

\* mapping.get(key, default) of a string key
GetOr(x, default) == IF x = "" THEN default ELSE x

name_parts(case) ==
    <<"spec", ReplaceDash(case.type)>>
    \o (IF case.type = "equivalence"
        THEN <<GetOr(case.param, "p"), GetOr(case.class, "cls")>>
        ELSE IF StartsWithBoundary(case.type)
        THEN <<GetOr(case.param, GetOr(case.label, "combo"))>>
        ELSE <<>>)

\* sep.join(xs)
RECURSIVE Join(_, _)
Join(sep, xs) ==
    IF xs = <<>> THEN ""
    ELSE IF Len(xs) = 1 THEN xs[1]
    ELSE xs[1] \o sep \o Join(sep, Tail(xs))

\* the parts and the index run together with no separator
MethodNameUnseparated(case, idx) == "test_" \o Join("", name_parts(case)) \o ToString(idx)

\* "test_" + "_".join(name_parts) + f"_{idx}"
mname(case, idx) == "test_" \o Join("_", name_parts(case)) \o "_" \o ToString(idx)

\* inputs.get(n)
Get(inputs, nm) == IF nm \in DOMAIN inputs THEN inputs[nm] ELSE NoneV

\* the argument literals of the call, in the order of the declared parameters
CallArgs(sp, inputs) ==
    [i \in 1..Len(sp.params) |-> _java_literal(Get(inputs, sp.params[i].name))]

\* the statement after "obj = new ...", given what evaluating the oracle gave:
\* assertEquals(expected, call), or the bare call under
\* "TODO: Provide oracle; auto-eval failed" (oracle_failed)
Statement(ev) ==
    IF ev.raised # "" THEN [kind |-> "raise", expected |-> NoneV, raised |-> ev.raised]
    ELSE IF ev.value # NoneV
    THEN [kind |-> "assertEquals", expected |-> _java_literal(ev.value), raised |-> ""]
    ELSE [kind |-> "oracle_failed", expected |-> NoneV, raised |-> ""]

\* an assertion emitted whatever the evaluation returned, None included
AssertsNone(ev) ==
    IF ev.raised # "" THEN [kind |-> "raise", expected |-> NoneV, raised |-> ev.raised]
    ELSE [kind |-> "assertEquals", expected |-> _java_literal(ev.value), raised |-> ""]

RenderBodyAssertsNone(sp, inputs) ==
    IF sp.oracle.given THEN AssertsNone(_eval_oracle(sp.oracle.tree, inputs))
    ELSE [kind |-> "todo", expected |-> NoneV, raised |-> ""]

\* the oracle evaluated whether or not one is configured
RenderBodyAlwaysEval(sp, inputs) == Statement(_eval_oracle(sp.oracle.tree, inputs))

\* the "if oracle_expr: ... else: ..." of one case; without an oracle, the bare
\* call under "TODO: Add assertions for expected behavior" (todo)
RenderBody(sp, inputs) ==
    IF sp.oracle.given THEN Statement(_eval_oracle(sp.oracle.tree, inputs))
    ELSE [kind |-> "todo", expected |-> NoneV, raised |-> ""]

\* class_under_test.split(".")[-1] if class_under_test else "Calculator"
cls_simple(sp) ==
    IF sp.classUnderTest = <<>> THEN "Calculator"
    ELSE sp.classUnderTest[Len(sp.classUnderTest)]

\* one pass of the loop over enumerate(cases), body being its statement
RenderMethod(sp, case, idx, body) ==
    [name |-> mname(case, idx),
     obj |-> cls_simple(sp),
     target |-> IF sp.method # "" THEN sp.method ELSE "underTest",
     args |-> CallArgs(sp, case.inputs),
     kind |-> body.kind,
     expected |-> body.expected,
     raised |-> body.raised]

\* the methods of the cases, in case order
Methods(sp, cases) ==
    [i \in 1..Len(cases) |->
        RenderMethod(sp, cases[i], i - 1, RenderBody(sp, cases[i].inputs))]

NoSource ==
    [error |-> "", package |-> "", junit4 |-> FALSE, test_class |-> "", method_comment |-> "",
     methods |-> <<>>]

\* the source with the methods ms
Source(sp, ms) ==
    [error |-> "",
     package |-> GetOr(sp.testPackage, sp.package),
     junit4 |-> sp.junitVersion = "4",
     test_class |-> GetOr(sp.testClassName, cls_simple(sp) \o "SpecTests"),
     method_comment |-> sp.method,
     methods |-> ms]

\* the methods up to the first one whose oracle evaluation failed
UpToFailure(ms) ==
    SubSeq(ms, 1, Cardinality({i \in 1..Len(ms) :
                                  \A j \in 1..i : ms[j].kind # "oracle_failed"}))

\* the loop left at the first case whose oracle evaluation fails
RenderStopsAtFailure(sp, cases) ==
    IF sp.testClassName = "" /\ sp.classUnderTest = <<>>
    THEN [NoSource EXCEPT !.error = "AttributeError"]
    ELSE Source(sp, UpToFailure(Methods(sp, cases)))

\* the source rendered from the methods ms, or the exception one of them raised
Rendering(sp, ms) ==
    LET bad == {i \in 1..Len(ms) : ms[i].raised # ""}
    IN  IF bad # {}
        THEN [NoSource EXCEPT !.error = ms[CHOOSE i \in bad : \A j \in bad : i <= j].raised]
        ELSE Source(sp, ms)

\* render_junit(spec, cases): the rendered source by its parts, or the exception
\* that leaves the call (error)
render_junit(sp, cases) ==
    IF sp.testClassName = "" /\ sp.classUnderTest = <<>>
    THEN [NoSource EXCEPT !.error = "AttributeError"]
    ELSE Rendering(sp, Methods(sp, cases))

\* write_junit_file(spec, content): the file written, at
\* out_dir / package as directories / test_class + ".java"
write_junit_file(sp, content) ==
    [path |-> [dir |-> GetOr(sp.outputDir, "src/test/java"),
               package |-> GetOr(sp.testPackage, sp.package),
               name |-> GetOr(sp.testClassName, "GeneratedSpecTests") \o ".java"],
     content |-> content]

NoFile == [dir |-> "", package |-> "", name |-> ""]

NoReturn ==
    [error |-> "", summary |-> NoResult.counts, file |-> NoFile, nominal |-> <<>>, cases |-> <<>>]

\* the file written whatever write_files says
ComposedAlwaysWrites(sp, cases_info, junit_src, wf) ==
    IF junit_src.error # ""
    THEN [ret |-> [NoReturn EXCEPT !.error = junit_src.error],
          junit_src |-> junit_src, written |-> {}]
    ELSE [ret |-> [error |-> "", summary |-> cases_info.counts,
                   file |-> write_junit_file(sp, junit_src).path,
                   nominal |-> cases_info.nominal, cases |-> cases_info.cases],
          junit_src |-> junit_src,
          written |-> {write_junit_file(sp, junit_src)}]

\* what generate_and_render returns (error: the exception that leaves it), the
\* source it rendered and the files it wrote, given the cases and the source
Composed(sp, cases_info, junit_src, wf) ==
    IF junit_src.error # ""
    THEN [ret |-> [NoReturn EXCEPT !.error = junit_src.error],
          junit_src |-> junit_src, written |-> {}]
    ELSE [ret |-> [error |-> "", summary |-> cases_info.counts,
                   file |-> IF wf THEN write_junit_file(sp, junit_src).path ELSE NoFile,
                   nominal |-> cases_info.nominal, cases |-> cases_info.cases],
          junit_src |-> junit_src,
          written |-> IF wf THEN {write_junit_file(sp, junit_src)} ELSE {}]

\* the cases rendered and written
GeneratedFrom(sp, cases_info, wf) ==
    Composed(sp, cases_info, render_junit(sp, cases_info.cases), wf)

\* generate_and_render(spec, write_files)
generate_and_render(sp, wf) == GeneratedFrom(sp, generate_cases(sp), wf)

---------------------------------------------------------------------------
(* The specifications and case lists the renderer is run on *)

\* longest run of filler cases between the two cases a case list varies
MaxPad == 9

\* the keys of a specification beside "params" and "output"
RenderHead(method, classUnderTest, testClassName, testPackage, package, junitVersion, outputDir) ==
    [method |-> method, classUnderTest |-> classUnderTest, testClassName |-> testClassName,
     testPackage |-> testPackage, package |-> package, junitVersion |-> junitVersion,
     outputDir |-> outputDir]

RenderHeads ==
    { RenderHead("add", <<"com", "x", "Calc">>, "", "", "com.x", "5", ""),
      RenderHead("", <<"Calc">>, "", "", "", "5", ""),
      RenderHead("add", <<>>, "", "", "", "5", ""),
      RenderHead("add", <<>>, "MyTests", "t", "com.x", "4", "out"),
      RenderHead("", <<>>, "MyTests", "", "", "5", ""),
      RenderHead("add", <<"Calc">>, "CalcTests", "", "", "5", "") }

\* spec["output"]["oracle"]: given is FALSE when no oracle is configured
NoOracle == [given |-> FALSE, tree |-> NoExpr]
Oracle(x) == [given |-> TRUE, tree |-> Root(x)]

\* a + b, a / b, a // b, a / 3, a - zz, a.b, a, 2 and text that does not parse
RenderOracles ==
    { Oracle(Bin("Add", Var("a"), Var("b"))), Oracle(Bin("Div", Var("a"), Var("b"))),
      Oracle(Bin("FloorDiv", Var("a"), Var("b"))), Oracle(Bin("Div", Var("a"), Lit(3))),
      Oracle(Bin("Sub", Var("a"), Var("zz"))), Oracle(Attr(Var("a"), "b")),
      Oracle(Var("a")), Oracle(Lit(2)), Oracle(Other("SyntaxError", <<>>)) }

\* the descriptors of the parameters an oracle is evaluated over
RenderParams ==
    { RawParam("int", MinMaxDomain(IntV(1), IntV(3)), Absent, Absent),
      RawParam("int", MinMaxDomain(IntV(-1), IntV(1)), Absent, Absent),
      RawParam("int", MinMaxDomain(IntV(0), IntV(3)), Absent, Absent),
      RawParam("int", NoDomain, Absent, Absent),
      RawParam("String", NoDomain, Absent, Absent) }

Named(ps) == [i \in 1..Len(ps) |-> [ps[i] EXCEPT !.name = NameAt(i)]]

ParamLists(descs) ==
    {<<>>} \cup UNION {{Named(ps) : ps \in [1..n -> descs]} : n \in 1..MaxParams}

\* the specifications generate_and_render is run on; floats and strings are
\* rendered without an oracle
RenderSpecs ==
    {h @@ [params |-> ps, oracle |-> o] :
        h \in RenderHeads, ps \in ParamLists(RenderParams), o \in RenderOracles \cup {NoOracle}}
    \cup {h @@ [params |-> Named(<<q>>), oracle |-> NoOracle] :
             h \in RenderHeads,
             q \in { RawParam("double", MinMaxDomain(FloatV(0, 1), FloatV(10, 1)), Absent, Absent),
                     RawParam("double", MinMaxDomain(FloatV(1, 1), FloatV(2, 1)), Absent, Absent),
                     RawParam("String", ValuesDomain(<<StrV(1), StrV(2)>>), Absent, Absent) }}

\* cases whose labels collide, run into one another when joined, end in digits or
\* underscores, or are missing
LabelCases ==
    {Case("equivalence", "a", c, NoneV, "", ("a" :> IntV(1))) :
        c \in {"x", "x_", "x1", "x_1", "1", ""}}
    \cup { Case("equivalence", "a_x", "1", NoneV, "", ("a" :> IntV(2))),
           Case("equivalence", "", "cls", NoneV, "", <<>>),
           Case("equivalence", "p", "", NoneV, "", ("a" :> IntV(2))),
           Case("boundary", "combo_a", "", IntV(2), "", ("a" :> IntV(2))),
           Case("boundary-combo", "", "", NoneV, "a", ("a" :> IntV(3))),
           Case("boundary-combo", "", "", NoneV, "", ("a" :> IntV(3))),
           Case("boundary", "combo", "", IntV(3), "", ("a" :> IntV(3))),
           Case("boundary_combo", "a", "", NoneV, "", ("a" :> NoneV)),
           Case("weird", "a", "x", NoneV, "", ("a" :> IntV(1))) }

\* two label cases, each behind a run of filler cases
CaseLists ==
    LET Pad(n) == [i \in 1..n |-> Case("boundary", "a", "", IntV(0), "", ("a" :> IntV(0)))]
    IN  {Pad(k) \o <<c1>> \o Pad(m) \o <<c2>> :
            k \in {0, 1}, m \in {0, 9, MaxPad}, c1 \in LabelCases, c2 \in LabelCases}

\* the specifications render_junit is run on with those case lists
CaseListSpecs ==
    {h @@ [params |-> Named(<<RawParam("int", NoDomain, Absent, Absent)>>), oracle |-> o] :
        h \in {RenderHead("add", <<"com", "x", "Calc">>, "", "", "com.x", "5", "")},
        o \in {NoOracle, Oracle(Var("a"))}}

---------------------------------------------------------------------------
(* Text *)

\* s[i] of a str: its i-th character
At(s, i) == SubSeq(s, i, i)

\* str.lower()
RECURSIVE lower(_)
lower(s) ==
    LET up == "ABCDEFGHIJKLMNOPQRSTUVWXYZ"
        lo == "abcdefghijklmnopqrstuvwxyz"
        c == Head(s)
    IN  IF s = "" THEN ""
        ELSE (IF \E j \in 1..26 : At(up, j) = c
              THEN At(lo, CHOOSE j \in 1..26 : At(up, j) = c) ELSE c) \o lower(Tail(s))

\* the characters the pattern \s matches
Whitespace == {" ", "\t", "\n"}

\* the pattern \w matches the character c
IsWord(c) ==
    \E j \in 1..63 :
        At("abcdefghijklmnopqrstuvwxyzABCDEFGHIJKLMNOPQRSTUVWXYZ0123456789_", j) = c

\* the pattern \b between s[j] and s[j+1]: a word character on exactly one side
Boundary(s, j) ==
    (j >= 1 /\ IsWord(At(s, j))) # (j < Len(s) /\ IsWord(At(s, j + 1)))

\* the pattern \bw\b matches s from position i on
MatchAt(s, i, w) ==
    /\ i + Len(w) - 1 <= Len(s)
    /\ SubSeq(s, i, i + Len(w) - 1) = w
    /\ Boundary(s, i - 1)
    /\ Boundary(s, i + Len(w) - 1)

\* re.sub(r"\b(w1|w2|...)\b", repl, s) from position i on: the leftmost matches,
\* the first alternative that matches, each replaced by the text repl gives for it
RECURSIVE sub(_, _, _, _)
sub(words, repl, s, i) ==
    IF i > Len(s) THEN ""
    ELSE IF \E k \in 1..Len(words) : MatchAt(s, i, words[k]) THEN
        LET k == CHOOSE k \in 1..Len(words) :
                    /\ MatchAt(s, i, words[k])
                    /\ \A j \in 1..(k - 1) : ~MatchAt(s, i, words[j])
        IN  repl[k] \o sub(words, repl, s, i + Len(words[k]))
    ELSE At(s, i) \o sub(words, repl, s, i + 1)

\* re.sub(r"\s+", " ", s) from position i on
RECURSIVE CollapseSpace(_, _)
CollapseSpace(s, i) ==
    IF i > Len(s) THEN ""
    ELSE IF At(s, i) \notin Whitespace THEN At(s, i) \o CollapseSpace(s, i + 1)
    ELSE IF i > 1 /\ At(s, i - 1) \in Whitespace THEN CollapseSpace(s, i + 1)
    ELSE " " \o CollapseSpace(s, i + 1)

\* s without the characters of the set chars at its right end and, when both is
\* TRUE, at its left end
Stripped(s, chars, both) ==
    LET kept == {i \in 1..Len(s) : At(s, i) \notin chars}
        first == CHOOSE i \in kept : \A j \in kept : i <= j
        last == CHOOSE i \in kept : \A j \in kept : j <= i
    IN  IF kept = {} THEN "" ELSE SubSeq(s, IF both THEN first ELSE 1, last)

\* str.strip()
strip(s) == Stripped(s, Whitespace, TRUE)

\* the (pattern, replacement) pairs of _nlp_normalize, in order
replacements ==
    <<  <<"multiplied by", " * ">>, <<"times", " * ">>, <<"divided by", " / ">>,
        <<"over", " / ">>, <<"to the power of", " ** ">>, <<"power of", " ** ">>,
        <<"plus", " + ">>, <<"minus", " - ">>, <<"mod", " % ">>  >>

\* number_map, in the order of its keys
number_map ==
    <<  <<"zero", "0">>, <<"one", "1">>, <<"two", "2">>, <<"three", "3">>, <<"four", "4">>,
        <<"five", "5">>, <<"six", "6">>, <<"seven", "7">>, <<"eight", "8">>, <<"nine", "9">>,
        <<"ten", "10">>, <<"eleven", "11">>, <<"twelve", "12">>, <<"thirteen", "13">>,
        <<"fourteen", "14">>, <<"fifteen", "15">>, <<"sixteen", "16">>, <<"seventeen", "17">>,
        <<"eighteen", "18">>, <<"nineteen", "19">>, <<"twenty", "20">>, <<"thirty", "30">>,
        <<"forty", "40">>, <<"fifty", "50">>, <<"sixty", "60">>, <<"seventy", "70">>,
        <<"eighty", "80">>, <<"ninety", "90">>, <<"hundred", "100">>  >>

\* the replacements from the k-th on, one after the other
RECURSIVE Replaced(_, _)
Replaced(s, k) ==
    IF k > Len(replacements) THEN s
    ELSE Replaced(sub(<<replacements[k][1]>>, <<replacements[k][2]>>, s, 1), k + 1)

\* _nlp_normalize(text) of a str
_nlp_normalize(text) ==
    LET removed == <<"calculate", "compute", "what is", "what's", "please", "answer", "=">>
        cleaned == sub(removed, [k \in 1..Len(removed) |-> ""], Replaced(lower(text), 1), 1)
    IN  strip(sub([k \in 1..Len(number_map) |-> number_map[k][1]],
                  [k \in 1..Len(number_map) |-> number_map[k][2]],
                  CollapseSpace(cleaned, 1), 1))

\* _extract_expression(text), "" when text is no str: what follows the leftmost "what is" and
\* its white space, the whole normalized text when there is none (the normalized
\* text has no line break and ends in no white space, so (.+)$ takes the rest)
_extract_expression(text) ==
    LET s == strip(_nlp_normalize(text.s))
        found == {i \in 1..Len(s) :
                    /\ i + 8 <= Len(s)
                    /\ SubSeq(s, i, i + 6) = "what is"
                    /\ At(s, i + 7) \in Whitespace}
        first == CHOOSE i \in found : \A j \in found : i <= j
        start == CHOOSE j \in (first + 8)..Len(s) :
                    /\ At(s, j) \notin Whitespace
                    /\ \A h \in (first + 7)..(j - 1) : At(s, h) \in Whitespace
        e == IF found = {} THEN s ELSE SubSeq(s, start, Len(s))
    IN  IF text.t # "str" THEN "" ELSE strip(Stripped(strip(e), {"?", "!", "."}, FALSE))

---------------------------------------------------------------------------
(* The calculator tool *)

\* what a call gave: the value returned, or the text of the exception raised
Return(v) == [raised |-> FALSE, value |-> v]
Throw(message) == [raised |-> TRUE, value |-> message]

\* the tokens of the expression s from position i on: the integer literals and
\* the other characters, white space left out
RECURSIVE Tokens(_, _)
Tokens(s, i) ==
    IF i > Len(s) THEN <<>>
    ELSE IF At(s, i) \in {" ", "\t"} THEN Tokens(s, i + 1)
    ELSE IF \E d \in 0..9 : ToString(d) = At(s, i) THEN
        LET j == CHOOSE j \in i..Len(s) :
                    /\ \A h \in i..j : \E d \in 0..9 : ToString(d) = At(s, h)
                    /\ j < Len(s) => \A d \in 0..9 : ToString(d) # At(s, j + 1)
        IN  <<SubSeq(s, i, j)>> \o Tokens(s, j + 1)
    ELSE <<At(s, i)>> \o Tokens(s, i + 1)

\* int(lit) of a decimal literal
RECURSIVE Decimal(_)
Decimal(lit) ==
    IF lit = "" THEN 0
    ELSE 10 * Decimal(SubSeq(lit, 1, Len(lit) - 1))
            + (CHOOSE d \in 0..9 : ToString(d) = At(lit, Len(lit)))

\* the value of  acc sign term op n ...  for the tokens op n ... left to read:
\* * and % bind tighter than + and -, each level associates to the left,
\* n % 0 raises ZeroDivisionError
RECURSIVE Calc(_, _, _, _)
Calc(toks, acc, sign, term) ==
    IF toks = <<>> THEN Return(acc + sign * term)
    ELSE LET n == Decimal(toks[2])
             rest == SubSeq(toks, 3, Len(toks))
         IN  CASE toks[1] = "*" -> Calc(rest, acc, sign, term * n)
               [] toks[1] = "%" ->
                    IF n = 0 THEN Throw("integer modulo by zero")
                    ELSE Calc(rest, acc, sign, term % n)
               [] toks[1] = "+" -> Calc(rest, acc + sign * term, 1, n)
               [] toks[1] = "-" -> Calc(rest, acc + sign * term, -1, n)

\* eval(expr) of an expression of the permitted characters, for the expressions
\* made of integer literals and the binary operators + - * %: its value, or the
\* SyntaxError of an expression that does not alternate literals and operators
eval(ex) ==
    LET toks == Tokens(ex, 1)
        IsLit(t) == \E d \in 0..9 : ToString(d) = At(t, 1)
    IN  IF toks = <<>> THEN Throw("unmodelled")
        ELSE IF \E k \in 1..Len(toks) : toks[k] \notin {"+", "-", "*", "%"} /\ ~IsLit(toks[k])
            THEN Throw("unmodelled")
        ELSE IF \E k \in 1..Len(toks) :
                    /\ IsLit(toks[k])
                    /\ Len(toks[k]) > 1
                    /\ At(toks[k], 1) = "0"
                    /\ Decimal(toks[k]) # 0
            THEN Throw("leading zeros in decimal integer literals are not permitted; "
                        \o "use an 0o prefix for octal integers (<string>, line 1)")
        ELSE IF \E k \in 1..(Len(toks) - 1) : ~IsLit(toks[k]) /\ ~IsLit(toks[k + 1])
            THEN Throw("unmodelled")
        ELSE IF toks[1] \in {"+", "-"} THEN Throw("unmodelled")
        ELSE IF Len(toks) % 2 = 0 \/ \E k \in 1..Len(toks) : IsLit(toks[k]) # (k % 2 = 1)
            THEN Throw("invalid syntax (<string>, line 1)")
        ELSE Calc(Tail(toks), 0, 1, Decimal(toks[1]))

\* _safe_eval(expr): str(eval(expr)), ValueError for an expression with another
\* character and for whatever eval raises
_safe_eval(ex) ==
    IF \/ ex = ""
       \/ \E i \in 1..Len(ex) : \A j \in 1..20 : At("0123456789+-*/(). \t%", j) # At(ex, i)
    THEN Throw("invalid expression")
    ELSE LET out == eval(ex)
         IN  IF out.raised THEN out ELSE Return(ToString(out.value))

---------------------------------------------------------------------------
(* The HTTP service: JSON values, the two POST handlers *)

\* JSON values as Python holds them
Null == [t |-> "null"]
Str(s) == [t |-> "str", s |-> s]
Number(n) == [t |-> "int", n |-> n]
Array(items) == [t |-> "list", items |-> items]
Dict(d) == [t |-> "dict", d |-> d]

\* bool(v)
Truthy(v) ==
    CASE v.t = "null" -> FALSE
      [] v.t = "str" -> v.s # ""
      [] v.t = "int" -> v.n # 0
      [] v.t = "list" -> v.items # <<>>
      [] v.t = "dict" -> DOMAIN v.d # {}

\* a or b
Or(a, b) == IF Truthy(a) THEN a ELSE b

\* d.get(key) of a dict d
get(d, key) == IF key \in DOMAIN d.d THEN d.d[key] ELSE Null

\* s.replace(old, new), old not empty
RECURSIVE replace(_, _, _)
replace(s, old, new) ==
    IF s = "" THEN ""
    ELSE IF Len(old) <= Len(s) /\ SubSeq(s, 1, Len(old)) = old
        THEN new \o replace(SubSeq(s, Len(old) + 1, Len(s)), old, new)
    ELSE Head(s) \o replace(Tail(s), old, new)

\* needle in hay, of two strs
In(needle, hay) ==
    \E i \in 1..(Len(hay) - Len(needle) + 1) : SubSeq(hay, i, i + Len(needle) - 1) = needle

\* TOOLS: the names registered, each with its function
TOOLS == {"aple_calculator"}

\* aple_calculator(text)
aple_calculator(text) == _safe_eval(_extract_expression(text))

\* _make_rpc_response(req_body, result_obj)
_make_rpc_response(req_body, result_obj) ==
    IF req_body.t = "dict" /\ Truthy(get(req_body, "jsonrpc")) /\ "id" \in DOMAIN req_body.d
    THEN Dict("jsonrpc" :> Str("2.0") @@ "id" :> get(req_body, "id") @@ "result" :> result_obj)
    ELSE Dict("result" :> result_obj)

\* JSONResponse(content, status_code), with the tools the handler called on the way
JSONResponse(content, status_code, called) ==
    [response |-> [status_code |-> status_code, content |-> content], invoked |-> called]

\* what the framework answers when the handler raises
ServerError == JSONResponse(Str("Internal Server Error"), 500, <<>>)

\* request.json() raised
ParseError ==
    JSONResponse(Dict("jsonrpc" :> Str("2.0")
                      @@ "error" :> Dict("code" :> Number(-32700) @@ "message" :> Str("Parse error"))),
                 400, <<>>)

\* handle(request): POST /
handle(req) ==
    LET body == req.body
        method == get(body, "method")
        req_id == get(body, "id")
        params == IF "params" \in DOMAIN body.d THEN body.d["params"] ELSE Dict(<<>>)
        text == IF params.t = "dict"
                    THEN Or(Or(get(params, "text"), get(params, "question")), Str(""))
                ELSE IF params.t = "str" THEN params
                ELSE Str("")
    IN  IF ~req.ok THEN ParseError
        ELSE IF body.t # "dict" THEN ServerError
        ELSE IF method = Str("initialize") THEN
            JSONResponse(Dict("jsonrpc" :> Str("2.0") @@ "id" :> req_id
                              @@ "result" :> Dict("capabilities" :>
                                    Dict("name" :> Str("ApleTest") @@ "version" :> Str("0.1")))),
                         200, <<>>)
        ELSE IF text.t = "str" /\ In("what is 1+2", replace(text.s, " ", "")) THEN
            JSONResponse(Dict("jsonrpc" :> Str("2.0") @@ "id" :> req_id
                              @@ "result" :> Dict("answer" :> Str("3"))),
                         200, <<>>)
        ELSE JSONResponse(Dict("jsonrpc" :> Str("2.0") @@ "id" :> req_id
                               @@ "result" :> Dict("echo" :> params)),
                          200, <<>>)

\* a call of a tool with no try block around it: the exception of the tool leaves
\* the handler
CallToolUnguarded(body, name, text) ==
    LET out == aple_calculator(text)
    IN  IF out.raised THEN [ServerError EXCEPT !.invoked = <<name>>]
        ELSE JSONResponse(_make_rpc_response(body, Str(out.value)), 200, <<name>>)

\* the try block around a tool: func(text), an exception turned into an error result
CallTool(body, name, text) ==
    LET out == aple_calculator(text)
    IN  JSONResponse(_make_rpc_response(body, IF out.raised THEN Dict("error" :> Str(out.value))
                                              ELSE Str(out.value)),
                     200, <<name>>)

\* mcp_endpoint(request): POST /mcp
mcp_endpoint(req) ==
    LET body == req.body
        is_dict == body.t = "dict"
        params == IF is_dict /\ "params" \in DOMAIN body.d
                  THEN Or(get(body, "params"), Dict(<<>>)) ELSE Null
        top_text == IF is_dict THEN Or(Or(get(body, "text"), get(body, "message")), Null) ELSE Null
        top_tool == IF is_dict THEN get(body, "tool") ELSE Null
        text == IF params.t = "dict"
                THEN Or(Or(top_text, get(params, "text")), get(params, "message")) ELSE top_text
        tool == IF params.t = "dict" THEN Or(top_tool, get(params, "tool")) ELSE top_tool
    IN  IF ~req.ok THEN ParseError
        ELSE IF is_dict /\ get(body, "method") = Str("initialize") THEN
            JSONResponse(_make_rpc_response(body, Dict(
                    "status" :> Str("initialized") @@ "tool_name" :> Str("ApleTest")
                    @@ "version" :> Str("1.0")
                    @@ "description" :> Str("Minimal calculator tool for MCP-compatible clients")
                    @@ "capabilities" :> Array(<<Str("calculate"), Str("evaluate expressions")>>)
                    @@ "transport" :> Str("sse")
                    @@ "tools" :> Array(<<Dict("name" :> Str("aple_calculator") @@ "doc" :>
                        Str("Simple calculator tool that evaluates numeric expressions from 'text'."))>>))),
                200, <<>>)
        ELSE IF ~Truthy(text) THEN
            IF is_dict /\ Truthy(get(body, "jsonrpc")) THEN
                JSONResponse(Dict("jsonrpc" :> Str("2.0") @@ "id" :> get(body, "id")
                                  @@ "error" :> Dict("code" :> Number(-32602)
                                                     @@ "message" :> Str("no text provided"))),
                             200, <<>>)
            ELSE JSONResponse(_make_rpc_response(body, Dict("error" :> Str("no text provided"))),
                              200, <<>>)
        ELSE IF Truthy(tool) THEN
            IF tool.t \in {"list", "dict"} THEN ServerError
            ELSE IF tool.t # "str" \/ tool.s \notin TOOLS THEN
                JSONResponse(_make_rpc_response(body, Dict("error" :> Str("tool not found"))),
                             404, <<>>)
            ELSE CallTool(body, tool.s, text)
        ELSE CallTool(body, "aple_calculator", text)

---------------------------------------------------------------------------
(* Git automation: GitAutomation and WorkflowIntegration *)

\* what subprocess.run gave for a command: the process ended with a return code
\* and its two outputs, the time limit passed, or the process could not be started
Exit(returncode, stdout, stderr) ==
    [kind |-> "exit", returncode |-> returncode, stdout |-> stdout, stderr |-> stderr]
TimeoutExpired == [kind |-> "timeout", returncode |-> 0, stdout |-> "", stderr |-> ""]
NotStarted(missing) ==
    [kind |-> "oserror", returncode |-> 0, stdout |-> "",
     stderr |-> "[Errno 2] No such file or directory: '" \o missing \o "'"]

\* s.split(sep) for a separator of one character
RECURSIVE split(_, _)
split(s, sep) ==
    IF \A i \in 1..Len(s) : At(s, i) # sep THEN <<s>>
    ELSE LET i == CHOOSE i \in 1..Len(s) : At(s, i) = sep /\ \A j \in 1..(i - 1) : At(s, j) # sep
         IN  <<SubSeq(s, 1, i - 1)>> \o split(SubSeq(s, i + 1, Len(s)), sep)

\* _run_git(args) when subprocess.run gave answer: (returncode, stdout.strip(),
\* stderr.strip()), or GitToolsError with its text
_run_git(args, answer) ==
    CASE answer.kind = "exit" ->
            Return(<<answer.returncode, strip(answer.stdout), strip(answer.stderr)>>)
      [] answer.kind = "timeout" -> Throw("Git command timed out: git " \o args)
      [] answer.kind = "oserror" -> Throw("Git command failed: " \o answer.stderr)

\* GitAutomation(repo_path): _validate_repo when rev-parse --git-dir gave answer.
\* subprocess.run is called without check, so it raises no CalledProcessError and
\* the except clause of _validate_repo catches nothing; the return code is unread
_validate_repo(answer) ==
    LET ran == _run_git("rev-parse --git-dir", answer)
    IN  IF ran.raised THEN ran ELSE Return("GitAutomation")

\* the list a line of git status --porcelain is put on by git_status
Kind(line) ==
    LET status == SubSeq(line, 1, IF Len(line) < 2 THEN Len(line) ELSE 2)
    IN  IF status \in {"UU", "AA", "DD", "DU", "UD"} THEN "conflicts"
        ELSE IF At(status, 1) \in {"M", "A", "D", "R"} THEN "staged_files"
        ELSE IF Len(status) < 2 THEN "IndexError"
        ELSE IF At(status, 2) \in {"M", "D"} THEN "unstaged_files"
        ELSE IF status = "??" THEN "untracked_files"
        ELSE ""

\* line[3:] of the lines of the list kind, in order
Filenames(lines, kind) ==
    LET on == SelectSeq(lines, LAMBDA line : line # "" /\ kind \in {Kind(line), "all"})
    IN  [i \in 1..Len(on) |-> SubSeq(on[i], 4, Len(on[i]))]

\* git_status() when status --porcelain gave st and rev-parse --abbrev-ref HEAD gave br
git_status(st, br) ==
    LET ran == _run_git("status --porcelain", st)
        lines == split(ran.value[2], "\n")
        head == _run_git("rev-parse --abbrev-ref HEAD", br)
        staged_files == Filenames(lines, "staged_files")
        unstaged_files == Filenames(lines, "unstaged_files")
        conflicts == Filenames(lines, "conflicts")
    IN  IF ran.raised THEN ran
        ELSE IF ran.value[1] # 0 THEN Throw("Failed to get git status: " \o ran.value[3])
        ELSE IF \E i \in 1..Len(lines) : lines[i] # "" /\ Kind(lines[i]) = "IndexError"
            THEN Throw("string index out of range")
        ELSE IF head.raised THEN head
        ELSE Return([is_clean |-> staged_files = <<>> /\ unstaged_files = <<>> /\ conflicts = <<>>,
                     staged_files |-> staged_files,
                     unstaged_files |-> unstaged_files,
                     conflicts |-> conflicts,
                     current_branch |-> IF head.value[1] = 0 THEN head.value[2] ELSE "unknown",
                     untracked_files |-> Filenames(lines, "untracked_files")])

\* _matches_pattern(filename, pattern): fnmatch for a pattern with at most one *
\* and no other wildcard
_matches_pattern(filename, pattern) ==
    LET parts == split(pattern, "*")
    IN  IF Len(parts) = 1 THEN filename = pattern
        ELSE /\ Len(parts[1]) + Len(parts[2]) <= Len(filename)
             /\ SubSeq(filename, 1, Len(parts[1])) = parts[1]
             /\ SubSeq(filename, Len(filename) - Len(parts[2]) + 1, Len(filename)) = parts[2]

\* git_add_all() with the default exclude_patterns, when status --porcelain gave
\* st and add gave added
git_add_all(st, added) ==
    LET exclude_patterns == <<"target/*", "build/*", "__pycache__/*", "*.class", "*.pyc",
                              "*.egg-info/*", ".pytest_cache/*", ".coverage", "*.o", "*.so",
                              "node_modules/*">>
        ran == _run_git("status --porcelain", st)
        files_to_add ==
            SelectSeq(Filenames(split(ran.value[2], "\n"), "all"),
                      LAMBDA filename :
                        /\ \A k \in 1..Len(exclude_patterns) :
                                ~_matches_pattern(filename, exclude_patterns[k])
                        /\ filename # "")
        add == _run_git("add", added)
    IN  IF ran.raised THEN
            [success |-> FALSE, message |-> "Error staging files: " \o ran.value, staged_count |-> 0]
        ELSE IF ran.value[1] # 0 THEN
            [success |-> FALSE, message |-> "Failed to get status: " \o ran.value[3],
             staged_count |-> 0]
        ELSE IF files_to_add = <<>> THEN
            [success |-> TRUE, message |-> "No files to stage (all changes filtered)",
             staged_count |-> 0, excluded_patterns |-> exclude_patterns]
        ELSE IF add.raised THEN
            [success |-> FALSE, message |-> "Error staging files: " \o add.value, staged_count |-> 0]
        ELSE IF add.value[1] # 0 THEN
            [success |-> FALSE, message |-> "Failed to stage files: " \o add.value[3],
             staged_count |-> 0]
        ELSE [success |-> TRUE,
              message |-> "Successfully staged " \o ToString(Len(files_to_add)) \o " file(s)",
              staged_count |-> Len(files_to_add), staged_files |-> files_to_add,
              excluded_patterns |-> exclude_patterns]

\* _extract_commit_hash(output): the seven characters a-f0-9 that stand as a word
\* right before the first "]" they can, after a "[" of the same line; "" for None
_extract_commit_hash(output) ==
    LET Hex(c) == \E j \in 1..16 : At("0123456789abcdef", j) = c
        found == {<<i, j>> \in (1..Len(output)) \X (1..Len(output)) :
                    /\ At(output, i) = "["
                    /\ i < j
                    /\ j + 7 <= Len(output)
                    /\ \A h \in j..(j + 6) : Hex(At(output, h))
                    /\ At(output, j + 7) = "]"
                    /\ Boundary(output, j - 1)
                    /\ \A h \in i..j : At(output, h) # "\n"}
        first == CHOOSE m \in found :
                    \A o \in found : m[1] < o[1] \/ (m[1] = o[1] /\ m[2] <= o[2])
    IN  IF found = {} THEN "" ELSE SubSeq(output, first[2], first[2] + 6)

\* git_commit(message) with no coverage_stats, when the commands of git_status
\* gave st and br and commit gave committed; the CommitResult as workflow reads it
git_commit(message, st, br, committed) ==
    LET status == git_status(st, br)
        ran == _run_git("commit -m " \o message, committed)
    IN  IF status.raised THEN
            [success |-> FALSE, message |-> "Error during commit: " \o status.value, hash |-> ""]
        ELSE IF status.value.staged_files = <<>> THEN
            [success |-> FALSE, message |-> "No staged changes to commit", hash |-> ""]
        ELSE IF ran.raised THEN
            [success |-> FALSE, message |-> "Error during commit: " \o ran.value, hash |-> ""]
        ELSE IF ran.value[1] # 0 THEN
            [success |-> FALSE, message |-> "Commit failed: " \o ran.value[3], hash |-> ""]
        ELSE [success |-> TRUE, message |-> "Commit successful: " \o message,
              hash |-> _extract_commit_hash(ran.value[2])]

\* git_push(remote) with no branch, when the commands of git_status gave st and br
\* and push gave pushed; branch is "" where Python has None
git_push(remote, st, br, pushed) ==
    LET status == git_status(st, br)
        branch == status.value.current_branch
        ran == _run_git("push -u " \o remote \o " " \o branch, pushed)
    IN  IF status.raised THEN
            [success |-> FALSE, message |-> "Error during push: " \o status.value,
             remote |-> remote, branch |-> ""]
        ELSE IF ran.raised THEN
            [success |-> FALSE, message |-> "Error during push: " \o ran.value,
             remote |-> remote, branch |-> branch]
        ELSE IF ran.value[1] # 0 THEN
            [success |-> FALSE, message |-> "Push failed: " \o ran.value[3],
             remote |-> remote, branch |-> branch]
        ELSE [success |-> TRUE, message |-> "Successfully pushed " \o branch \o " to " \o remote,
              remote |-> remote, branch |-> branch, output |-> ran.value[2]]

\* the end of the longest run of characters of the set chars that starts at s[i],
\* i - 1 when s[i] is none of them
RunEnd(s, i, chars) ==
    CHOOSE j \in (i - 1)..Len(s) :
        /\ \A h \in i..j : \E k \in 1..Len(chars) : At(chars, k) = At(s, h)
        /\ j < Len(s) => \A k \in 1..Len(chars) : At(chars, k) # At(s, j + 1)

\* _extract_pr_url(output): the leftmost https://github.com/<owner>/<repo>/pull/<n>,
\* output.strip() when there is none
_extract_pr_url(output) ==
    LET name == "abcdefghijklmnopqrstuvwxyzABCDEFGHIJKLMNOPQRSTUVWXYZ0123456789_-"
        site == "https://github.com/"
        \* where the match that starts at i ends, 0 when none does
        End(i) ==
            LET owner == RunEnd(output, i + Len(site), name)
                repo == RunEnd(output, owner + 2, name)
                n == RunEnd(output, repo + 7, "0123456789")
            IN  IF /\ i + Len(site) - 1 <= Len(output)
                   /\ SubSeq(output, i, i + Len(site) - 1) = site
                   /\ owner >= i + Len(site)
                   /\ At(output, owner + 1) = "/"
                   /\ repo >= owner + 2
                   /\ repo + 6 <= Len(output)
                   /\ SubSeq(output, repo + 1, repo + 6) = "/pull/"
                   /\ n >= repo + 7
                THEN n ELSE 0
        found == {i \in 1..Len(output) : End(i) # 0}
        first == CHOOSE i \in found : \A j \in found : i <= j
    IN  IF found = {} THEN strip(output) ELSE SubSeq(output, first, End(first))

\* _extract_pr_number(pr_url): the digits after the leftmost "/pull/" that has
\* some, 0 for None
_extract_pr_number(pr_url) ==
    LET found == {i \in 1..Len(pr_url) :
                    /\ i + 5 <= Len(pr_url)
                    /\ SubSeq(pr_url, i, i + 5) = "/pull/"
                    /\ RunEnd(pr_url, i + 6, "0123456789") >= i + 6}
        first == CHOOSE i \in found : \A j \in found : i <= j
    IN  IF found = {} THEN 0
        ELSE Decimal(SubSeq(pr_url, first + 6, RunEnd(pr_url, first + 6, "0123456789")))

\* git_pull_request(base, title) with no body and no coverage_stats, when which gh
\* gave which, the commands of git_status gave st and br, credential gave cred and
\* gh pr create gave created; title is "" where Python has None; the
\* PullRequestResult as workflow reads it
git_pull_request(base, title, which, st, br, cred, created) ==
    LET status == git_status(st, br)
        current_branch == status.value.current_branch
        Failed(message) == [success |-> FALSE, message |-> message, url |-> "", number |-> 0]
        pr_url == _extract_pr_url(created.stdout)
    IN  IF which.kind # "exit" THEN
            Failed("GitHub CLI (gh) is not installed or not in PATH. "
                    \o "Install from https://cli.github.com/")
        ELSE IF status.raised THEN Failed("Error creating PR: " \o status.value)
        ELSE IF current_branch \in {"main", "master"} THEN
            Failed("Cannot create PR from " \o current_branch \o " branch. "
                    \o "Create a feature branch first.")
        ELSE IF _run_git("credential helpers", cred).raised THEN
            Failed("Error creating PR: " \o _run_git("credential helpers", cred).value)
        ELSE IF created.kind = "oserror" THEN
            Failed("GitHub CLI (gh) not found. Install from https://cli.github.com/")
        ELSE IF created.kind = "timeout" THEN
            Failed("Error creating PR: Command '['gh', 'pr', 'create', '--base', '" \o base
                    \o "', '--title', '"
                    \o (IF title # "" THEN title
                        ELSE "Merge " \o current_branch \o " into " \o base)
                    \o "', '--body', 'Automated PR from testing agent', '--head', '"
                    \o current_branch \o "']' timed out after 30 seconds")
        ELSE IF created.returncode # 0 THEN Failed("Failed to create PR: " \o created.stderr)
        ELSE [success |-> TRUE,
              message |-> "PR created successfully: "
                            \o (IF title # "" THEN title ELSE current_branch),
              url |-> pr_url, number |-> _extract_pr_number(pr_url)]

\* automated_workflow without the returns after a failed step
WorkflowWithoutReturns(commit_message, push_remote, pr, pr_base, pr_title, ran) ==
    LET stage == git_add_all(ran.stage.status, ran.stage.add)
        commit == git_commit(commit_message, ran.commit.status, ran.commit.branch,
                             ran.commit.commit)
        push == git_push(push_remote, ran.push.status, ran.push.branch, ran.push.push)
        pull == git_pull_request(pr_base, pr_title, ran.pr.which, ran.pr.status,
                                     ran.pr.branch, ran.pr.credential, ran.pr.create)
    IN  [results |-> ("stage" :> stage) @@ ("commit" :> commit) @@ ("push" :> push)
                     @@ (IF pr THEN "pr" :> pull ELSE <<>>),
         calls |-> <<"git_add_all", "git_commit", "git_push">>
                   \o (IF pr THEN <<"git_pull_request">> ELSE <<>>)]

\* automated_workflow(commit_message, push_remote, create_pr, pr_base, pr_title)
\* with no coverage_stats, when the commands of its steps gave the answers ran:
\* the results, and the methods of self.git called, in order
automated_workflow(commit_message, push_remote, pr, pr_base, pr_title, ran) ==
    LET stage == git_add_all(ran.stage.status, ran.stage.add)
        commit == git_commit(commit_message, ran.commit.status, ran.commit.branch,
                             ran.commit.commit)
        push == git_push(push_remote, ran.push.status, ran.push.branch, ran.push.push)
        pull == git_pull_request(pr_base, pr_title, ran.pr.which, ran.pr.status,
                                     ran.pr.branch, ran.pr.credential, ran.pr.create)
    IN  IF ~stage.success THEN
            [results |-> ("stage" :> stage), calls |-> <<"git_add_all">>]
        ELSE IF ~commit.success THEN
            [results |-> ("stage" :> stage) @@ ("commit" :> commit),
             calls |-> <<"git_add_all", "git_commit">>]
        ELSE IF ~push.success THEN
            [results |-> ("stage" :> stage) @@ ("commit" :> commit) @@ ("push" :> push),
             calls |-> <<"git_add_all", "git_commit", "git_push">>]
        ELSE IF pr THEN
            [results |-> ("stage" :> stage) @@ ("commit" :> commit) @@ ("push" :> push)
                         @@ ("pr" :> pull),
             calls |-> <<"git_add_all", "git_commit", "git_push", "git_pull_request">>]
        ELSE [results |-> ("stage" :> stage) @@ ("commit" :> commit) @@ ("push" :> push),
              calls |-> <<"git_add_all", "git_commit", "git_push">>]

---------------------------------------------------------------------------
(* What the commands answer *)

\* lines of git status --porcelain per output
MaxLines == 2

\* a command that succeeds and prints nothing
Quiet == Exit(0, "", "")

\* a command run outside a repository
NotARepository ==
    Exit(128, "", "fatal: not a git repository (or any of the parent directories): .git\n")

\* the outputs of git status --porcelain: up to MaxLines lines, each the two
\* status columns, a space and a path, each ended by a line break
RECURSIVE Porcelain(_)
Porcelain(n) ==
    IF n = 0 THEN {""}
    ELSE Porcelain(n - 1)
         \cup {xy \o " " \o path \o "\n" \o rest :
                xy \in {" M", "M ", "A ", " D", "R ", "??", "UU", "MM"},
                path \in {"a.py", "src/b.py"},
                rest \in Porcelain(n - 1)}

\* what rev-parse --abbrev-ref HEAD answers
Branches == {Exit(0, "feat\n", ""), Exit(0, "main\n", ""), NotARepository}

\* the answers of the commands of the four steps of a workflow; the commands of a
\* step the workflow does not come to are given the quiet answer
WorkflowAnswers(pr) ==
    LET statuses == {Quiet, Exit(0, "M  a.py\n?? b.pyc\n", ""), Exit(0, " M a.py\n", ""),
                     NotARepository}
        stages == {[status |-> s, add |-> a] :
                    s \in statuses,
                    a \in {Quiet, Exit(128, "", "fatal: pathspec '.py' did not match any files\n")}}
        commits == {[status |-> s, branch |-> b, commit |-> c] :
                    s \in statuses, b \in Branches,
                    c \in {Exit(0, "[feat 1a2b3c4] msg\n 1 file changed, 1 insertion(+)\n", ""),
                           Exit(1, "", "hook declined\n")}}
        pushes == {[status |-> s, branch |-> b, push |-> p] :
                    s \in {Quiet, NotARepository}, b \in Branches,
                    p \in {Exit(0, "", "To github.com:o/r.git\n"),
                           Exit(1, "", "error: failed to push some refs\n"), TimeoutExpired}}
        pulls == {[which |-> w, status |-> s, branch |-> b, credential |-> Exit(1, "", "usage\n"),
                   create |-> c] :
                    w \in {Exit(0, "/usr/bin/gh\n", ""), NotStarted("which")},
                    s \in {Quiet, NotARepository}, b \in Branches,
                    c \in {Exit(0, "https://github.com/o/r/pull/7\n", ""),
                           Exit(1, "", "pull request create failed\n"), NotStarted("gh"),
                           TimeoutExpired}}
        staged == {w \in stages : git_add_all(w.status, w.add).success}
        committed == {w \in commits : git_commit("msg", w.status, w.branch, w.commit).success}
        pushed == {w \in pushes : git_push("origin", w.status, w.branch, w.push).success}
    IN  {[stage |-> a,
          commit |-> IF a \in staged THEN b ELSE [status |-> Quiet, branch |-> Quiet, commit |-> Quiet],
          push |-> IF a \in staged /\ b \in committed THEN c
                   ELSE [status |-> Quiet, branch |-> Quiet, push |-> Quiet],
          pr |-> IF a \in staged /\ b \in committed /\ c \in pushed /\ pr THEN d
                 ELSE [which |-> Quiet, status |-> Quiet, branch |-> Quiet, credential |-> Quiet,
                       create |-> Quiet]] :
            a \in stages, b \in commits, c \in pushes, d \in pulls}

---------------------------------------------------------------------------
(* The requests the handlers are given *)

NoRequest == [ok |-> FALSE, body |-> Null]
NoResponse == [status_code |-> 0, content |-> Null]

\* a body that does not parse
BadRequests == {[ok |-> FALSE, body |-> Null]}

\* the ways a key is absent from a mapping or holds one of the values vs
Opt(key, vs) == {<<>>} \cup {key :> v : v \in vs}

\* the texts sent: questions the calculator answers, with capitals, words and
\* number words, one whose modulus is zero, one that ends in an operator, one
\* that is no expression, and the empty text
Texts ==
    {"What is 1 + 2?", "Calculate 2 times 3 plus 4", "please compute seven MOD three!",
     "swhat is 12 - 20", "7 mod 0", "3 plus", "hello", ""}

\* the bodies sent to POST /mcp: text, message and tool at the top level or in
\* params, as JSON-RPC or not, and a body that is no mapping
McpBodies ==
    {Dict(text @@ message @@ tool @@ rpc @@ params) :
        text \in Opt("text", {Str(t) : t \in Texts} \cup {Number(5)}),
        message \in Opt("message", {Str("1 plus 1")}),
        tool \in Opt("tool", {Str("aple_calculator"), Str("nope"), Number(7), Array(<<Str("x")>>)}),
        rpc \in {<<>>, "jsonrpc" :> Str("2.0") @@ "id" :> Number(1), "jsonrpc" :> Str("2.0"),
                 "method" :> Str("initialize")},
        params \in Opt("params", {Null, Str("2 + 2"), Dict("text" :> Str("2 times 2")),
                                  Dict("message" :> Str("4 minus 5") @@ "tool" :> Str("nope")),
                                  Dict("tool" :> Str("aple_calculator"))})}
    \cup {Array(<<Str("1 + 2")>>)}

\* the bodies sent to POST /: the question with and without spaces, as text, as
\* question and as params itself, other texts, other params, and a body that is
\* no mapping
RootBodies ==
    {Dict(method @@ id @@ params) :
        method \in Opt("method", {Str("initialize"), Str("ask")}),
        id \in Opt("id", {Number(1), Null}),
        params \in Opt("params",
            LET qs == {Str(q) : q \in {"what is 1+2", "what is 1 + 2", "whatis1+2",
                                       "tell me what is 1+2 please", "hello", ""}}
            IN  qs \cup {Dict("text" :> q) : q \in qs} \cup {Dict("question" :> q) : q \in qs}
                \cup {Dict("text" :> Str("") @@ "question" :> Str("what is 1+2")),
                      Dict("text" :> Number(3)), Dict(<<>>), Null, Number(3),
                      Array(<<Str("what is 1+2")>>)})}
    \cup {Array(<<>>)}

---------------------------------------------------------------------------
(* Calls *)

Init ==
    /\ call = "idle"
    /\ spec = [params |-> <<>>]
    /\ params_obj = <<>>
    /\ result = NoResult
    /\ expr = NoExpr
    /\ env = <<>>
    /\ value = NoneV
    /\ raised = ""
    /\ case_list = <<>>
    /\ write_files = FALSE
    /\ junit = NoSource
    /\ ret = NoReturn
    /\ files = {}
    /\ heap = <<>>
    /\ request = NoRequest
    /\ response = NoResponse
    /\ invoked = <<>>
    /\ answers = <<>>
    /\ create_pr = FALSE
    /\ outcome = Return("")

\* normalize_spec(sp)
NormalizeSpec ==
    /\ call = "idle"
    /\ \E sp \in Specs :
        /\ call' = "normalize_spec"
        /\ spec' = sp
        /\ params_obj' = normalize_spec(sp)
        /\ heap' = NormalizeObjects(sp).heap
    /\ UNCHANGED <<result, expr, env, value, raised, case_list, write_files, junit, ret, files>>
    /\ UNCHANGED <<request, response, invoked, answers, create_pr, outcome>>

\* generate_cases(sp)
GenerateCases ==
    /\ call = "idle"
    /\ \E sp \in Specs :
        /\ call' = "generate_cases"
        /\ spec' = sp
        /\ params_obj' = normalize_spec(sp)
        /\ result' = generate_cases(sp)
        /\ heap' = GenerateObjects(sp)
    /\ UNCHANGED <<expr, env, value, raised, case_list, write_files, junit, ret, files>>
    /\ UNCHANGED <<request, response, invoked, answers, create_pr, outcome>>

Next == NormalizeSpec \/ GenerateCases

Spec == Init /\ [][Next]_vars

\* _eval_oracle(expr, inputs), the expression given by its syntax tree
EvalOracle ==
    /\ call = "idle"
    /\ \E in \in EvalInputs :
        LET out == _eval_oracle(Root(in[1]), in[2])
        IN  /\ call' = "_eval_oracle"
            /\ expr' = Root(in[1])
            /\ env' = in[2]
            /\ value' = out.value
            /\ raised' = out.raised
    /\ UNCHANGED <<spec, params_obj, result, case_list, write_files, junit, ret, files, heap>>
    /\ UNCHANGED <<request, response, invoked, answers, create_pr, outcome>>

NextEval == EvalOracle

SpecEval == Init /\ [][NextEval]_vars

\* _midpoint(lo, hi) of two ints
Midpoint ==
    /\ call = "idle"
    /\ \E lo \in -MidBound..MidBound, hi \in -MidBound..MidBound :
        /\ call' = "_midpoint"
        /\ env' = ("min_v" :> IntV(lo) @@ "max_v" :> IntV(hi))
        /\ value' = IntV(_midpoint(lo, hi))
    /\ UNCHANGED <<spec, params_obj, result, expr, raised, case_list, write_files, junit, ret,
                   files, heap>>
    /\ UNCHANGED <<request, response, invoked, answers, create_pr, outcome>>

NextMidpoint == Midpoint

SpecMidpoint == Init /\ [][NextMidpoint]_vars

\* render_junit(sp, cs)
RenderJunit ==
    /\ call = "idle"
    /\ \E sp \in CaseListSpecs, cs \in CaseLists :
        /\ call' = "render_junit"
        /\ spec' = sp
        /\ case_list' = cs
        /\ junit' = render_junit(sp, cs)
    /\ UNCHANGED <<params_obj, result, expr, env, value, raised, write_files, ret, files, heap>>
    /\ UNCHANGED <<request, response, invoked, answers, create_pr, outcome>>

\* generate_and_render(sp, wf)
GenerateAndRender ==
    /\ call = "idle"
    /\ \E sp \in RenderSpecs, wf \in BOOLEAN :
        \E out \in {generate_and_render(sp, wf)} :
            /\ call' = "generate_and_render"
            /\ spec' = sp
            /\ write_files' = wf
            /\ params_obj' = normalize_spec(sp)
            /\ result' = generate_cases(sp)
            /\ case_list' = result'.cases
            /\ junit' = out.junit_src
            /\ ret' = out.ret
            /\ files' = {f \in files : \A w \in out.written : f.path # w.path} \cup out.written
            /\ heap' = GenerateObjects(sp)
    /\ UNCHANGED <<expr, env, value, raised>>
    /\ UNCHANGED <<request, response, invoked, answers, create_pr, outcome>>

NextRender == RenderJunit \/ GenerateAndRender

SpecRender == Init /\ [][NextRender]_vars

\* POST / : handle(request)
Handle ==
    /\ call = "idle"
    /\ \E req \in BadRequests \cup {[ok |-> TRUE, body |-> b] : b \in RootBodies} :
        \E out \in {handle(req)} :
            /\ call' = "handle"
            /\ request' = req
            /\ response' = out.response
            /\ invoked' = out.invoked
    /\ UNCHANGED <<spec, params_obj, result, expr, env, value, raised, case_list, write_files,
                   junit, ret, files, heap, answers, create_pr, outcome>>

\* POST /mcp : mcp_endpoint(request)
McpEndpoint ==
    /\ call = "idle"
    /\ \E req \in BadRequests \cup {[ok |-> TRUE, body |-> b] : b \in McpBodies} :
        \E out \in {mcp_endpoint(req)} :
            /\ call' = "mcp_endpoint"
            /\ request' = req
            /\ response' = out.response
            /\ invoked' = out.invoked
    /\ UNCHANGED <<spec, params_obj, result, expr, env, value, raised, case_list, write_files,
                   junit, ret, files, heap, answers, create_pr, outcome>>

NextApp == Handle \/ McpEndpoint

SpecApp == Init /\ [][NextApp]_vars

\* GitAutomation(repo_path) on a repository, on a directory that is none, on a
\* path that does not exist, and with a git that does not end in time
Construct ==
    /\ call = "idle"
    /\ \E a \in {Exit(0, ".git\n", ""), NotARepository, NotStarted("/tmp/missing"), TimeoutExpired} :
        /\ call' = "GitAutomation"
        /\ answers' = [rev_parse |-> a]
        /\ outcome' = _validate_repo(a)
    /\ UNCHANGED <<spec, params_obj, result, expr, env, value, raised, case_list, write_files,
                   junit, ret, files, heap, request, response, invoked, create_pr>>

\* git_status()
GitStatus ==
    /\ call = "idle"
    /\ \E st \in {Exit(0, out, "") : out \in Porcelain(MaxLines)} \cup {NotARepository, TimeoutExpired},
          br \in Branches :
        /\ call' = "git_status"
        /\ answers' = [status |-> st, branch |-> br]
        /\ outcome' = git_status(st, br)
    /\ UNCHANGED <<spec, params_obj, result, expr, env, value, raised, case_list, write_files,
                   junit, ret, files, heap, request, response, invoked, create_pr>>

\* automated_workflow(commit_message, push_remote, create_pr, pr_base, pr_title)
AutomatedWorkflow ==
    /\ call = "idle"
    /\ \E pr \in BOOLEAN :
        \E ran \in WorkflowAnswers(pr) :
            /\ call' = "automated_workflow"
            /\ answers' = ran
            /\ create_pr' = pr
            /\ outcome' = automated_workflow("msg", "origin", pr, "main", "", ran)
    /\ UNCHANGED <<spec, params_obj, result, expr, env, value, raised, case_list, write_files,
                   junit, ret, files, heap, request, response, invoked>>

NextGit == Construct \/ GitStatus \/ AutomatedWorkflow

SpecGit == Init /\ [][NextGit]_vars

---------------------------------------------------------------------------
(* Properties of normalize_spec and generate_cases *)

Returned == call \in {"normalize_spec", "generate_cases"}
Generated == call = "generate_cases"

\* parameter i is integer-like with an integer domain min <= max
IntDomainAt(i) ==
    LET p == params_obj[i]
    IN  /\ p.type \in INT_TYPES
        /\ HasMinMax(p.domain)
        /\ p.domain.min.k = "int" /\ p.domain.max.k = "int"
        /\ p.domain.min.n <= p.domain.max.n

DerivedClassesAt(i) == ~spec.params[i].equivalence_classes.given
DerivedBoundariesAt(i) == ~spec.params[i].boundaries.given

\* the three classes an integer domain can have, with the condition for each
C1_Expected(lo, hi) ==
    LET all == << [ec |-> RangeEC("negative", IntV(lo), IntV(-1)), on |-> lo < 0],
                  [ec |-> ValuesEC("zero", <<IntV(0)>>), on |-> lo <= 0 /\ 0 <= hi],
                  [ec |-> RangeEC("positive", IntV(1), IntV(hi)), on |-> hi > 0] >>
        isOn(x) == x.on
        kept == SelectSeq(all, isOn)
    IN  [j \in 1..Len(kept) |-> kept[j].ec]

\* C1: an integer-like parameter with domain min <= max and no explicit classes gets
\* exactly the classes negative [min,-1] iff min < 0, zero {0} iff min <= 0 <= max,
\* positive [1,max] iff max > 0, in this order; [0,10] gives zero and positive only.
C1_IntClasses ==
    Returned =>
        \A i \in 1..Len(params_obj) :
            (IntDomainAt(i) /\ DerivedClassesAt(i)) =>
                LET p == params_obj[i]
                    ecs == p.equivalence_classes
                IN  /\ ecs = C1_Expected(p.domain.min.n, p.domain.max.n)
                    /\ (p.domain.min.n = 0 /\ p.domain.max.n = 10) =>
                          /\ Len(ecs) = 2
                          /\ ecs[1].name = "zero" /\ ecs[2].name = "positive"

C1_Witness ==
    /\ call = "normalize_spec"
    /\ \E i \in 1..Len(params_obj) :
          /\ IntDomainAt(i) /\ DerivedClassesAt(i)
          /\ params_obj[i].domain.min.n < 0 /\ params_obj[i].domain.max.n > 0
          /\ Len(params_obj[i].equivalence_classes) = 3

SeqSet(xs) == {xs[i] : i \in 1..Len(xs)}

\* C2: for an integer-like parameter with domain min <= max and no explicit boundaries
\* the derived boundary list has no duplicates, lies in [min,max], is as a set
\* {min, min+1, max-1, max, -1, 0, 1} cut to [min,max], and lists the values next to
\* min and max before the other near-zero values; [0,10] gives 0,1,9,10 and [1,100]
\* gives 1,2,99,100.
C2_IntBoundaries ==
    Returned =>
        \A i \in 1..Len(params_obj) :
            (IntDomainAt(i) /\ DerivedBoundariesAt(i)) =>
                LET p == params_obj[i]
                    lo == p.domain.min.n
                    hi == p.domain.max.n
                    b == p.boundaries
                    edge == {lo, lo + 1, hi - 1, hi}
                IN  /\ \A x, y \in 1..Len(b) : x # y => b[x] # b[y]
                    /\ \A x \in 1..Len(b) : b[x].k = "int" /\ lo <= b[x].n /\ b[x].n <= hi
                    /\ {v.n : v \in SeqSet(b)} = {c \in edge \cup {-1, 0, 1} : lo <= c /\ c <= hi}
                    /\ \A x, y \in 1..Len(b) : (x < y /\ b[y].n \in edge) => b[x].n \in edge
                    /\ (lo = 0 /\ hi = 10) => b = <<IntV(0), IntV(1), IntV(9), IntV(10)>>
                    /\ (lo = 1 /\ hi = 100) => b = <<IntV(1), IntV(2), IntV(99), IntV(100)>>

C2_Witness ==
    /\ call = "normalize_spec"
    /\ \E i \in 1..Len(params_obj) :
          /\ IntDomainAt(i) /\ DerivedBoundariesAt(i)
          /\ params_obj[i].domain.min.n = -3 /\ params_obj[i].domain.max.n = 3
          /\ Len(params_obj[i].boundaries) = 7

\* C3: for an integer-like parameter with domain min <= max every range [lo,hi] of a
\* derived class satisfies min <= lo <= hi <= max and every derived boundary lies in
\* [min,max].
C3_WithinDomain ==
    Returned =>
        \A i \in 1..Len(params_obj) :
            IntDomainAt(i) =>
                LET p == params_obj[i]
                    lo == p.domain.min.n
                    hi == p.domain.max.n
                IN  /\ DerivedClassesAt(i) =>
                          \A j \in 1..Len(p.equivalence_classes) :
                              LET ec == p.equivalence_classes[j]
                              IN  ec.hasRange =>
                                      lo <= ec.lo.n /\ ec.lo.n <= ec.hi.n /\ ec.hi.n <= hi
                    /\ DerivedBoundariesAt(i) =>
                          \A j \in 1..Len(p.boundaries) :
                              lo <= p.boundaries[j].n /\ p.boundaries[j].n <= hi

\* parameter i is floating with the domain [0.0, 10.0] and derived classes
FloatZeroTenAt(i) ==
    LET p == params_obj[i]
    IN  /\ p.type \in FLOAT_TYPES
        /\ HasMinMax(p.domain)
        /\ ToFloat(p.domain.min) = FloatV(0, 1) /\ ToFloat(p.domain.max) = FloatV(10, 1)
        /\ DerivedClassesAt(i)

C4_Classes(i) ==
    params_obj[i].equivalence_classes =
        << RangeEC("low", FloatV(0, 1), FloatV(5, 1)), RangeEC("high", FloatV(5, 1), FloatV(10, 1)) >>

\* C4 as stated: a floating parameter with domain [0.0,10.0] and no explicit classes gets
\* exactly low=[0.0,5.0] and high=[5.0,10.0], and its nominal value is 5.0.
C4_Original ==
    Generated =>
        \A i \in 1..Len(params_obj) :
            FloatZeroTenAt(i) =>
                C4_Classes(i) /\ result.nominal[params_obj[i].name] = FloatV(5, 1)

\* C4 amended: a floating parameter with domain [0.0,10.0] and no explicit classes gets
\* exactly low=[0.0,5.0] and high=[5.0,10.0], and its nominal value is 2.5, the
\* midpoint of the first class.
C4_Amended ==
    Generated =>
        \A i \in 1..Len(params_obj) :
            FloatZeroTenAt(i) =>
                C4_Classes(i) /\ result.nominal[params_obj[i].name] = FloatV(5, 2)

C4_Witness ==
    /\ Generated
    /\ \E i \in 1..Len(params_obj) :
          FloatZeroTenAt(i) /\ result.nominal[params_obj[i].name].k = "float"

\* parameter i has a non-empty boundary list and a domain with min and max
ComboReadyAt(i) == Len(params_obj[i].boundaries) >= 1 /\ HasMinMax(params_obj[i].domain)

IsCombo(c) == c.type = "boundary-combo"

\* the combo cases of the result are all-min then all-max over every declared parameter
C5_ComboShape ==
    LET combos == SelectSeq(result.cases, IsCombo)
        names == ParamNames(params_obj)
    IN  /\ Len(combos) = 2
        /\ combos[1].label = "all-min" /\ combos[2].label = "all-max"
        /\ DOMAIN combos[1].inputs = names /\ DOMAIN combos[2].inputs = names
        /\ \A i \in 1..Len(params_obj) :
              /\ combos[1].inputs[params_obj[i].name] = params_obj[i].domain.min
              /\ combos[2].inputs[params_obj[i].name] = params_obj[i].domain.max

C5_HasCombo == \E k \in 1..Len(result.cases) : IsCombo(result.cases[k])

\* C5 as stated: combo cases are emitted iff every declared parameter has a non-empty
\* boundary list and a domain with min and max; then there are exactly two, all-min
\* then all-max, over every declared parameter; otherwise there is none.
C5_Original ==
    Generated =>
        /\ C5_HasCombo <=> (\A i \in 1..Len(params_obj) : ComboReadyAt(i))
        /\ C5_HasCombo => C5_ComboShape

\* C5 amended: combo cases are emitted iff there is at least one declared parameter and
\* every declared parameter has a non-empty boundary list and a domain with min and
\* max; then there are exactly two, all-min then all-max, over every declared
\* parameter; otherwise there is none.
C5_Amended ==
    Generated =>
        /\ C5_HasCombo <=> (Len(params_obj) >= 1 /\ \A i \in 1..Len(params_obj) : ComboReadyAt(i))
        /\ C5_HasCombo => C5_ComboShape

C5_Witness ==
    /\ Generated
    /\ Len(params_obj) = 2
    /\ C5_HasCombo
    /\ result.cases[Len(result.cases)].inputs = ("a" :> IntV(5) @@ "b" :> IntV(5))

\* the number of classes (which = "ec") or boundaries of the parameters before i
RECURSIVE C6_Before(_, _)
C6_Before(which, i) ==
    IF i <= 1 THEN 0
    ELSE C6_Before(which, i - 1)
         + (IF which = "ec" THEN Len(params_obj[i - 1].equivalence_classes)
            ELSE Len(params_obj[i - 1].boundaries))

\* C6: in the returned list all equivalence cases precede all boundary cases, which
\* precede all combo cases; each of the first two blocks is ordered by parameter
\* declaration order and then by the order of that parameter's classes (boundaries).
C6_CaseOrder ==
    Generated =>
        LET n == Len(params_obj)
            cases == result.cases
            ne == C6_Before("ec", n + 1)
            nb == C6_Before("b", n + 1)
        IN  /\ Len(cases) >= ne + nb
            /\ \A i \in 1..n :
                  /\ \A j \in 1..Len(params_obj[i].equivalence_classes) :
                        LET c == cases[C6_Before("ec", i) + j]
                        IN  /\ c.type = "equivalence"
                            /\ c.param = params_obj[i].name
                            /\ c.class = params_obj[i].equivalence_classes[j].name
                  /\ \A j \in 1..Len(params_obj[i].boundaries) :
                        LET c == cases[ne + C6_Before("b", i) + j]
                        IN  /\ c.type = "boundary"
                            /\ c.param = params_obj[i].name
                            /\ c.boundary = params_obj[i].boundaries[j]
            /\ \A k \in (ne + nb + 1)..Len(cases) : IsCombo(cases[k])

C6_Witness ==
    /\ Generated
    /\ Len(params_obj) = 2
    /\ Len(params_obj[1].equivalence_classes) >= 2 /\ Len(params_obj[2].equivalence_classes) >= 2
    /\ Len(params_obj[1].boundaries) >= 2 /\ Len(params_obj[2].boundaries) >= 2
    /\ C5_HasCombo

\* C7: every equivalence or boundary case has a value for every declared parameter,
\* agrees with the nominal vector on every parameter but the one it names, and holds
\* there the representative of the class (the boundary literal).
C7_OneAtATime ==
    Generated =>
        \A k \in 1..Len(result.cases) :
            LET c == result.cases[k]
            IN  c.type \in {"equivalence", "boundary"} =>
                    /\ DOMAIN c.inputs = ParamNames(params_obj)
                    /\ \A x \in DOMAIN c.inputs : x # c.param => c.inputs[x] = result.nominal[x]
                    /\ \E i \in 1..Len(params_obj) :
                          /\ params_obj[i].name = c.param
                          /\ IF c.type = "boundary"
                             THEN c.inputs[c.param] = c.boundary
                             ELSE \E j \in 1..Len(params_obj[i].equivalence_classes) :
                                     LET ec == params_obj[i].equivalence_classes[j]
                                     IN  /\ ec.name = c.class
                                         /\ c.inputs[c.param] = _representative_from_ec(ec, params_obj[i])

C7_Witness ==
    /\ Generated
    /\ Len(params_obj) = 2
    /\ \E k \in 1..Len(result.cases) :
          LET c == result.cases[k]
          IN  /\ c.type = "boundary" /\ c.param = "a"
              /\ c.inputs["a"] # result.nominal["a"]
              /\ c.inputs["b"] = result.nominal["b"]

---------------------------------------------------------------------------
(* Properties of the oracle evaluator *)

Evaluated == call = "_eval_oracle"

\* the expression is a syntax tree: the string parsed
Parsed == expr.kids[1].tag # "SyntaxError"

\* the node itself is in the allowed set: a numeric literal, a variable reference, unary
\* +/-, binary + - * / // % **, or a positional call to abs, min, max or round
C8_NodeAllowed(node) ==
    \/ node.tag \in {"Expression", "Num", "Name"}
    \/ node.tag = "UnaryOp" /\ node.op \in {"UAdd", "USub"}
    \/ node.tag = "BinOp" /\ node.op \in {"Add", "Sub", "Mult", "Div", "FloorDiv", "Mod", "Pow"}
    \/ /\ node.tag = "Call"
       /\ node.kids[1].tag = "Name" /\ node.kids[1].id \in {"abs", "min", "max", "round"}
       /\ node.kw = <<>>

\* the children of a node: operands, call arguments and keyword values (the function
\* name of an allowed call is part of the call, not a child)
C8_Children(node) ==
    IF node.tag = "Call" /\ C8_NodeAllowed(node) THEN SeqSet(Tail(node.kids))
    ELSE SeqSet(node.kids) \cup SeqSet(node.kw)

RECURSIVE C8_HasForeign(_)
C8_HasForeign(node) ==
    \/ ~C8_NodeAllowed(node)
    \/ \E c \in C8_Children(node) : C8_HasForeign(c)

\* C8: an expression whose syntax tree holds, at any position, a node outside the
\* allowed set makes the evaluator return failure instead of a value.
C8_FailClosed ==
    (Evaluated /\ Parsed /\ C8_HasForeign(expr)) => (value = NoneV /\ raised = "")

\* the operands and positional arguments the evaluator visits below a node
C9_Operands(node) ==
    IF node.tag = "Call" THEN SeqSet(Tail(node.kids)) ELSE SeqSet(node.kids)

\* the node is a literal zero or a variable bound to a zero number
C9_IsZero(node) ==
    \/ node.tag = "Num" /\ IsNum(node.n) /\ node.n.n = 0
    \/ node.tag = "Name" /\ node.id \in DOMAIN env /\ IsNum(env[node.id]) /\ env[node.id].n = 0

\* some visited node divides by zero
RECURSIVE C9_DividesByZero(_)
C9_DividesByZero(node) ==
    \/ node.tag = "BinOp" /\ node.op \in {"Div", "FloorDiv", "Mod"} /\ C9_IsZero(node.kids[2])
    \/ \E c \in C9_Operands(node) : C9_DividesByZero(c)

\* some visited node refers to a variable the environment lacks
RECURSIVE C9_UnboundName(_)
C9_UnboundName(node) ==
    \/ node.tag = "Name" /\ node.id \notin DOMAIN env
    \/ \E c \in C9_Operands(node) : C9_UnboundName(c)

\* C9: _eval_oracle returns a value or the failure value and never lets an exception
\* reach its caller; a division, floor division or modulo by zero and a reference to a
\* variable absent from the environment both yield failure.
C9_NoException ==
    Evaluated =>
        /\ raised = ""
        /\ (Parsed /\ C9_DividesByZero(expr)) => value = NoneV
        /\ (Parsed /\ C9_UnboundName(expr)) => value = NoneV

C9_Witness ==
    /\ Evaluated
    /\ expr = Root(Bin("Div", Var("a"), Var("b")))
    /\ env = ("a" :> IntV(2) @@ "b" :> IntV(0))
    /\ value = NoneV

\* floor(x / y), y # 0: the q with y*q <= x < y*q + y (for y < 0: y*q >= x > y*q + y)
C10_Floor(x, y) ==
    CHOOSE q \in -(Abs(x) + 1)..(Abs(x) + 1) :
        IF y > 0 THEN y * q <= x /\ x < y * q + y ELSE y * q >= x /\ x > y * q + y

\* the integer standard arithmetic gives an expression over integers, or no value when
\* a divisor is zero
RECURSIVE C10_Ref(_)
C10_Ref(node) ==
    CASE node.tag = "Expression" -> C10_Ref(node.kids[1])
      [] node.tag = "Num" -> [ok |-> TRUE, v |-> node.n.n]
      [] node.tag = "Name" -> [ok |-> TRUE, v |-> env[node.id].n]
      [] node.tag = "UnaryOp" ->
            LET x == C10_Ref(node.kids[1])
            IN  [ok |-> x.ok, v |-> IF node.op = "USub" THEN 0 - x.v ELSE x.v]
      [] node.tag = "BinOp" ->
            LET x == C10_Ref(node.kids[1])
                y == C10_Ref(node.kids[2])
            IN  IF ~x.ok \/ ~y.ok THEN [ok |-> FALSE, v |-> 0]
                ELSE CASE node.op = "Add" -> [ok |-> TRUE, v |-> x.v + y.v]
                       [] node.op = "Sub" -> [ok |-> TRUE, v |-> x.v - y.v]
                       [] node.op = "Mult" -> [ok |-> TRUE, v |-> x.v * y.v]
                       [] node.op = "FloorDiv" ->
                            IF y.v = 0 THEN [ok |-> FALSE, v |-> 0]
                            ELSE [ok |-> TRUE, v |-> C10_Floor(x.v, y.v)]
                       [] node.op = "Mod" ->
                            IF y.v = 0 THEN [ok |-> FALSE, v |-> 0]
                            ELSE [ok |-> TRUE, v |-> x.v - y.v * C10_Floor(x.v, y.v)]

\* the expression is built only from integer literals, variables bound to integers,
\* unary +/- and binary + - * // %
RECURSIVE C10_IsIntArith(_)
C10_IsIntArith(node) ==
    /\ \/ node.tag = "Expression"
       \/ node.tag = "Num" /\ node.n.k = "int"
       \/ node.tag = "Name" /\ node.id \in DOMAIN env /\ env[node.id].k = "int"
       \/ node.tag = "UnaryOp" /\ node.op \in {"UAdd", "USub"}
       \/ node.tag = "BinOp" /\ node.op \in {"Add", "Sub", "Mult", "FloorDiv", "Mod"}
    /\ node.kw = <<>>
    /\ \A c \in SeqSet(node.kids) : C10_IsIntArith(c)

\* C10: for an expression built only from integer literals, variables bound to integers,
\* unary +/- and binary + - * // % with non-zero divisors the evaluator returns exactly
\* the integer of standard arithmetic with floor division and floor modulo; "1+2" gives
\* 3 and "a+b" with a = b = -5 gives -10.
C10_IntArithmetic ==
    (Evaluated /\ C10_IsIntArith(expr) /\ C10_Ref(expr).ok) =>
        /\ raised = ""
        /\ value = IntV(C10_Ref(expr).v)
        /\ expr = Root(Bin("Add", Lit(1), Lit(2))) => value = IntV(3)
        /\ (expr = Root(Bin("Add", Var("a"), Var("b"))) /\ env["a"] = IntV(-5) /\ env["b"] = IntV(-5))
              => value = IntV(-10)

C10_Witness ==
    /\ Evaluated
    /\ expr = Root(Bin("Mod", Bin("FloorDiv", Var("a"), Var("b")), Lit(2)))
    /\ env = ("a" :> IntV(-1) @@ "b" :> IntV(2))
    /\ value = IntV(1)

---------------------------------------------------------------------------
(* Properties of render_junit and generate_and_render *)

\* a call that rendered a source
Rendered == call \in {"render_junit", "generate_and_render"} /\ junit.error = ""

\* what evaluating the configured oracle on the inputs of case i gives
OracleOn(i) == _eval_oracle(spec.oracle.tree, case_list[i].inputs)

\* two numbers are equal in value
NumEq(a, b) == a.n * b.d = b.n * a.d /\ a.u = b.u

\* C11: with an oracle configured, the method of a case holds an equality
\* assertion exactly when evaluating the oracle on the inputs of the case
\* succeeds, and the asserted expected value is then the result of the
\* evaluation; otherwise it holds the bare call under the marker that the
\* oracle could not be computed
C11_OracleAssertion ==
    (Rendered /\ spec.oracle.given) =>
        \A i \in 1..Len(case_list) :
            LET m == junit.methods[i]
                ev == OracleOn(i)
            IN  IF ev.raised = "" /\ ev.value # NoneV
                THEN m.kind = "assertEquals" /\ NumEq(m.expected, ev.value)
                ELSE m.kind = "oracle_failed"

\* the expected value e of an assertion is the result v of the evaluation: the
\* same integer, or the float within half a unit of its sixth significant digit
C11_Literal(e, v) ==
    IF v.k = "int" THEN e = v
    ELSE /\ v.k = "float"
         /\ e.k = "float"
         /\ 200000 * Abs(e.n * v.d - v.n * e.d) <= Abs(v.n) * e.d

\* C11 (amended): with an oracle configured, the method of a case holds an
\* equality assertion exactly when evaluating the oracle on the inputs of the
\* case succeeds, and the asserted expected value is then the literal of the
\* result: the result itself for an integer, the result rounded to six
\* significant digits for a float; otherwise the method holds the bare call
\* under the marker that the oracle could not be computed
C11_Amended ==
    (Rendered /\ spec.oracle.given) =>
        \A i \in 1..Len(case_list) :
            LET m == junit.methods[i]
                ev == OracleOn(i)
            IN  IF ev.raised = "" /\ ev.value # NoneV
                THEN m.kind = "assertEquals" /\ C11_Literal(m.expected, ev.value)
                ELSE m.kind = "oracle_failed" /\ m.expected = NoneV

\* a source in which one case asserts a rounded quotient and another case,
\* whose evaluation failed, carries the marker
C11_Witness ==
    /\ Rendered
    /\ spec.oracle.given
    /\ \E i, j \in 1..Len(case_list) :
        /\ junit.methods[i].kind = "assertEquals"
        /\ ~NumEq(junit.methods[i].expected, OracleOn(i).value)
        /\ junit.methods[j].kind = "oracle_failed"

\* C12: with no oracle configured, the method of every case holds the call
\* under the assertion-needed marker and never an equality assertion
C12_NoOracleNoAssertion ==
    (Rendered /\ ~spec.oracle.given) =>
        \A i \in 1..Len(junit.methods) :
            /\ junit.methods[i].kind = "todo"
            /\ junit.methods[i].args = CallArgs(spec, case_list[i].inputs)

\* a source of several methods rendered with no oracle configured
C12_Witness ==
    /\ Rendered
    /\ ~spec.oracle.given
    /\ Len(junit.methods) > 1
    /\ Len(spec.params) > 0

\* C13: the source holds exactly one method per case, in the order of the
\* cases, whatever the oracle: a case whose evaluation fails keeps its method,
\* and the cases around it keep theirs, assertion included
C13_OneMethodPerCase ==
    Rendered =>
        /\ Len(junit.methods) = Len(case_list)
        /\ \A i \in 1..Len(case_list) :
            /\ i <= Len(junit.methods)
            /\ junit.methods[i].name = mname(case_list[i], i - 1)
            /\ junit.methods[i].args = CallArgs(spec, case_list[i].inputs)
            /\ (spec.oracle.given /\ OracleOn(i).value # NoneV)
                   => junit.methods[i].kind = "assertEquals"

\* a source in which the evaluation fails for a case between two cases that
\* are asserted
C13_Witness ==
    /\ Rendered
    /\ spec.oracle.given
    /\ \E i, j, k \in 1..Len(case_list) :
        /\ i < j /\ j < k
        /\ junit.methods[i].kind = "assertEquals"
        /\ junit.methods[j].kind = "oracle_failed"
        /\ junit.methods[k].kind = "assertEquals"

\* C14: the names of the rendered methods are pairwise distinct
C14_DistinctNames ==
    Rendered =>
        \A i, j \in 1..Len(junit.methods) :
            i # j => junit.methods[i].name # junit.methods[j].name

\* a case list in which two cases carry the same labels and another pair,
\* x1 at index 1 and x at index 11, differs only in where the digits sit
C14_Witness ==
    /\ call = "render_junit"
    /\ Rendered
    /\ Len(case_list) >= 12
    /\ name_parts(case_list[1]) = name_parts(case_list[3])
    /\ case_list[2].class = "x1"
    /\ case_list[12].class = "x"

\* C15: rendering a specification that names no method fails with an error:
\* no source is rendered and no file is written
C15_MissingMethodFails ==
    (call \in {"render_junit", "generate_and_render"} /\ spec.method = "") =>
        /\ junit.error # ""
        /\ junit.methods = <<>>
        /\ files = {}
        /\ call = "generate_and_render" => ret.error # ""

\* the summary a run over the specification of this run returns with oracle o
SummaryWith(o) == generate_and_render([spec EXCEPT !.oracle = o], write_files).ret.summary

\* every evaluation of oracle o over the cases of this run succeeds
AllSucceed(o) ==
    \A i \in 1..Len(case_list) : _eval_oracle(o.tree, case_list[i].inputs).value # NoneV

\* C16: when the oracle evaluation fails for some case, the run completes and
\* its summary differs from the summary of a run over the same cases in which
\* every evaluation succeeded
C16_SummaryReportsFailures ==
    (/\ call = "generate_and_render"
     /\ spec.oracle.given
     /\ \E i \in 1..Len(junit.methods) : junit.methods[i].kind = "oracle_failed") =>
        /\ ret.error = ""
        /\ \A o \in RenderOracles : AllSucceed(o) => SummaryWith(o) # ret.summary

---------------------------------------------------------------------------
(* Properties of the counts, the enumerated classes and the nominal vector *)

\* the sum of the numbers xs
RECURSIVE C18_Sum(_)
C18_Sum(xs) == IF xs = <<>> THEN 0 ELSE Head(xs) + C18_Sum(Tail(xs))

\* C18: counts.total is the number of cases, counts.equivalence the number of
\* equivalence classes over all parameters, counts.boundary the number of
\* boundary values over all parameters plus the number of combo cases, and
\* total = equivalence + boundary
C18_Counts ==
    Generated =>
        LET classes == C18_Sum([i \in 1..Len(params_obj) |->
                                   Len(params_obj[i].equivalence_classes)])
            bounds == C18_Sum([i \in 1..Len(params_obj) |-> Len(params_obj[i].boundaries)])
            combos == Cardinality({i \in 1..Len(result.cases) : IsCombo(result.cases[i])})
        IN  /\ result.counts.total = Len(result.cases)
            /\ result.counts.equivalence = classes
            /\ result.counts.boundary = bounds + combos
            /\ result.counts.total = result.counts.equivalence + result.counts.boundary

\* a run over two parameters with classes, boundaries and both combo cases
C18_Witness ==
    /\ Generated
    /\ Len(params_obj) = 2
    /\ result.counts.equivalence > 2
    /\ result.counts.boundary > 4
    /\ \E i, j \in 1..Len(result.cases) :
        i # j /\ IsCombo(result.cases[i]) /\ IsCombo(result.cases[j])

\* parameter i declares no classes and has a values list that decides its classes
C19_EnumeratedAt(i) ==
    /\ i \in 1..Len(spec.params)
    /\ ~spec.params[i].equivalence_classes.given
    /\ spec.params[i].domain.hasValues
    /\ ~(/\ spec.params[i].hasType
         /\ spec.params[i].type \in INT_TYPES \cup FLOAT_TYPES
         /\ HasMinMax(spec.params[i].domain))

\* C19: the derived classes of a parameter with a values list are one
\* single-value class per domain value for the first min(3, n) values, in
\* domain order, named value_0, value_1, value_2; later values get no class
C19_EnumeratedClasses ==
    Returned =>
        \A i \in 1..Len(spec.params) :
            C19_EnumeratedAt(i) =>
                LET vals == spec.params[i].domain.values
                    ecs == params_obj[i].equivalence_classes
                IN  /\ Len(ecs) = (IF Len(vals) < 3 THEN Len(vals) ELSE 3)
                    /\ \A j \in 1..Len(ecs) :
                        /\ ecs[j].name = "value_" \o ToString(j - 1)
                        /\ ecs[j].hasValues
                        /\ ~ecs[j].hasRange
                        /\ ecs[j].values = <<vals[j]>>

\* a parameter with five domain values and three derived classes
C19_Witness ==
    /\ Returned
    /\ \E i \in 1..Len(spec.params) :
        /\ C19_EnumeratedAt(i)
        /\ Len(spec.params[i].domain.values) = 5
        /\ Len(params_obj[i].equivalence_classes) = 3

\* two values are equal as Python compares them
C20_Equal(a, b) == IF IsNum(a) /\ IsNum(b) THEN a.n * b.d = b.n * a.d /\ a.u = b.u ELSE a = b

\* the index in the case list of the case of the first class of parameter i
C20_FirstCase(i) ==
    C18_Sum([j \in 1..(i - 1) |-> Len(params_obj[j].equivalence_classes)]) + 1

\* C20: the nominal value of a parameter with classes is the representative
\* of its first class, so the inputs of the case of that class are the
\* nominal vector
C20_NominalIsFirstRepresentative ==
    Generated =>
        \A i \in 1..Len(params_obj) :
            Len(params_obj[i].equivalence_classes) > 0 =>
                LET c == result.cases[C20_FirstCase(i)]
                IN  /\ c.type = "equivalence"
                    /\ c.param = params_obj[i].name
                    /\ \A nm \in DOMAIN result.nominal :
                        C20_Equal(c.inputs[nm], result.nominal[nm])

---------------------------------------------------------------------------
(* Properties of the driver's output *)

\* what the run over the same specification with write_files true returns
C21_Written == generate_and_render(spec, TRUE)

\* C21: generate_and_render with write_files false writes no file and returns
\* no output path, and its summary, nominal vector and case list are those
\* returned with write_files true on the same specification
C21_NoWrite ==
    (call = "generate_and_render" /\ ~write_files) =>
        /\ files = {}
        /\ ret.file = NoFile
        /\ ret.error = C21_Written.ret.error
        /\ ret.summary = C21_Written.ret.summary
        /\ ret.nominal = C21_Written.ret.nominal
        /\ ret.cases = C21_Written.ret.cases

\* a run with write_files false that returns cases, on a specification the run
\* with write_files true writes a file for
C21_Witness ==
    /\ call = "generate_and_render"
    /\ ~write_files
    /\ ret.error = ""
    /\ Len(ret.cases) > 2
    /\ C21_Written.written # {}
    /\ C21_Written.ret.file # NoFile

\* C24: the base name of a file generate_and_render writes is the name of the
\* public test class declared in the source written to it
C24_FileNamedAfterClass ==
    call = "generate_and_render" =>
        \A f \in files : f.path.name = f.content.test_class \o ".java"

\* C22: normalize_spec and generate_cases leave the caller's specification as
\* it was, with the same keys and values and no "_params_obj" key, and the
\* "spec" generate_cases returns has no "_params_obj" key
C22_InputUnchanged ==
    Returned =>
        /\ heap["spec"] = spec
        /\ DOMAIN heap["spec"] = DOMAIN spec
        /\ "_params_obj" \notin DOMAIN heap["spec"]
        /\ heap["spec"].params = spec.params
        /\ call = "generate_cases" =>
            /\ "_params_obj" \notin DOMAIN heap["returned"]
            /\ heap["returned"] = spec

\* a call that derived the classes of a parameter and stored the normalized
\* parameters in the copy
C22_Witness ==
    /\ Generated
    /\ "new_spec" \in DOMAIN heap
    /\ heap["new_spec"]["_params_obj"] = params_obj
    /\ \E i \in 1..Len(spec.params) :
        /\ ~spec.params[i].equivalence_classes.given
        /\ ~spec.params[i].boundaries.given
        /\ Len(params_obj[i].equivalence_classes) > 0
        /\ Len(params_obj[i].boundaries) > 0

\* every parameter is integer-like with a domain min <= max and declares
\* neither classes nor boundaries
C25_AllDerivedInt ==
    /\ Len(spec.params) > 0
    /\ \A i \in 1..Len(spec.params) :
        /\ params_obj[i].type \in INT_TYPES
        /\ HasMinMax(spec.params[i].domain)
        /\ spec.params[i].domain.min.k = "int"
        /\ spec.params[i].domain.max.k = "int"
        /\ spec.params[i].domain.min.n <= spec.params[i].domain.max.n
        /\ ~spec.params[i].equivalence_classes.given
        /\ ~spec.params[i].boundaries.given

\* the value v given to parameter i lies in the domain of the parameter
C25_Within(i, v) ==
    /\ v.k = "int"
    /\ spec.params[i].domain.min.n <= v.n
    /\ v.n <= spec.params[i].domain.max.n

\* C25: when every parameter is integer-like with a domain min <= max and
\* derived classes and boundaries, every value of the nominal vector and every
\* input value of every case lies within [min, max] of its parameter
C25_InputsWithinDomain ==
    (Generated /\ C25_AllDerivedInt) =>
        \A i \in 1..Len(spec.params) :
            /\ C25_Within(i, result.nominal[spec.params[i].name])
            /\ \A j \in 1..Len(result.cases) :
                C25_Within(i, result.cases[j].inputs[spec.params[i].name])

---------------------------------------------------------------------------
(* Properties of _midpoint *)

\* C26: for integers lo <= hi the midpoint lo + (hi - lo) // 2 lies in
\* [lo, hi] and is the floor of (lo + hi) / 2, negative lo and hi included
C26_MidpointIsFloor ==
    (call = "_midpoint" /\ env["min_v"].n <= env["max_v"].n) =>
        /\ value.k = "int"
        /\ env["min_v"].n <= value.n
        /\ value.n <= env["max_v"].n
        /\ 2 * value.n <= env["min_v"].n + env["max_v"].n
        /\ env["min_v"].n + env["max_v"].n < 2 * value.n + 2

\* the midpoint of two negative integers whose sum is odd
C26_Witness ==
    /\ call = "_midpoint"
    /\ env["min_v"].n < env["max_v"].n
    /\ env["max_v"].n < 0
    /\ (env["min_v"].n + env["max_v"].n) % 2 = 1
    /\ value.n < env["max_v"].n

---------------------------------------------------------------------------
(* Properties of the HTTP service *)

\* the values a body of POST /mcp carries under one of the keys, at the top level
\* and in a params mapping
Carried(b, keys) ==
    IF b.t # "dict" THEN {}
    ELSE {b.d[k] : k \in keys \cap DOMAIN b.d}
         \cup (IF "params" \in DOMAIN b.d /\ b.d["params"].t = "dict"
               THEN {b.d["params"].d[k] : k \in keys \cap DOMAIN b.d["params"].d} ELSE {})

\* the response reports the error message, as a JSON-RPC error or as an error result
ErrorIs(message) ==
    /\ response.content.t = "dict"
    /\ \/ /\ "error" \in DOMAIN response.content.d
          /\ get(response.content.d["error"], "message") = Str(message)
       \/ /\ "result" \in DOMAIN response.content.d
          /\ response.content.d["result"] = Dict("error" :> Str(message))

\* the four cases of POST /mcp for the body of the request
McpCases ==
    LET texts == Carried(request.body, {"text", "message"})
        names == Carried(request.body, {"tool"})
        has_text == \E v \in texts : Truthy(v)
    IN  /\ texts = {} => ErrorIs("no text provided") /\ invoked = <<>>
        /\ (has_text /\ names # {} /\ \A v \in names : v.t = "str" /\ v.s \notin TOOLS /\ v.s # "") =>
                /\ response.status_code = 404
                /\ ErrorIs("tool not found")
                /\ invoked = <<>>
        /\ (has_text /\ names = {}) =>
                /\ invoked = <<"aple_calculator">>
                /\ response.status_code = 200
                /\ \E v \in texts :
                    /\ Truthy(v)
                    /\ IF aple_calculator(v).raised THEN ErrorIs(aple_calculator(v).value)
                       ELSE get(response.content, "result") = Str(aple_calculator(v).value)

\* C23 as stated: every POST to /mcp whose body parses answers by the four cases:
\* no text or message gives the error 'no text provided' and no tool call; text
\* and an unknown tool name give 404 'tool not found' and no tool call; text and
\* no tool name give one call of aple_calculator and status 200 with its result,
\* an exception of the tool as an error result
C23_Original == (call = "mcp_endpoint" /\ request.ok) => McpCases

\* C23: the four cases hold for every POST to /mcp whose body parses and whose
\* method is not "initialize" (an initialize request is answered with the
\* description of the service whatever else its body carries)
C23_Amended ==
    (/\ call = "mcp_endpoint"
     /\ request.ok
     /\ ~(request.body.t = "dict" /\ get(request.body, "method") = Str("initialize"))) => McpCases

\* a request with text and no tool name whose tool call raised: the modulus by zero
C23_Witness ==
    /\ call = "mcp_endpoint"
    /\ request.ok
    /\ request.body = Dict("text" :> Str("7 mod 0"))
    /\ invoked = <<"aple_calculator">>
    /\ response.status_code = 200
    /\ response.content = Dict("result" :> Dict("error" :> Str("integer modulo by zero")))

\* the text or question of the params of a POST / is the question "what is 1+2",
\* with or without spaces around the operator
C30_Asked ==
    LET params == get(request.body, "params")
        asked == Or(get(params, "text"), get(params, "question"))
    IN  /\ call = "handle"
        /\ request.ok
        /\ request.body.t = "dict"
        /\ get(request.body, "method") # Str("initialize")
        /\ params.t = "dict"
        /\ asked \in {Str("what is 1+2"), Str("what is 1 + 2")}

\* C30: a POST / that is no initialize request and asks "what is 1+2" in the
\* text or question of its params is answered with the result {"answer": "3"}
C30_AnswersThree ==
    C30_Asked => get(response.content, "result") = Dict("answer" :> Str("3"))

---------------------------------------------------------------------------
(* Properties of the git automation *)

\* C27: automated_workflow calls its steps in the order stage, commit, push,
\* pull request; a step is called only if every step before it reported success,
\* the pull request only if create_pr is true; and the results hold an entry
\* for exactly the steps called
C27_StepsInOrder ==
    LET order == <<"git_add_all", "git_commit", "git_push", "git_pull_request">>
        keys == <<"stage", "commit", "push", "pr">>
        n == Len(outcome.calls)
    IN  call = "automated_workflow" =>
            /\ n \in 1..4
            /\ outcome.calls = SubSeq(order, 1, n)
            /\ \A i \in 2..n : outcome.results[keys[i - 1]].success
            /\ n = 4 => create_pr
            /\ DOMAIN outcome.results = {keys[i] : i \in 1..n}

\* a workflow that was asked for a pull request and whose commit failed after a
\* stage that succeeded: neither push nor pull request was called
C27_Witness ==
    /\ call = "automated_workflow"
    /\ create_pr
    /\ outcome.calls = <<"git_add_all", "git_commit">>
    /\ outcome.results["stage"].success
    /\ ~outcome.results["commit"].success
    /\ DOMAIN outcome.results = {"stage", "commit"}

\* C28: GitAutomation on a directory where rev-parse --git-dir ends with a return
\* code other than zero raises GitToolsError
C28_NotARepositoryRaises ==
    (/\ call = "GitAutomation"
     /\ answers.rev_parse.kind = "exit"
     /\ answers.rev_parse.returncode # 0) => outcome.raised

\* the lines of the output of git status --porcelain as git printed them: the
\* two status columns and the path of each
C29_Printed ==
    LET lines == SelectSeq(split(answers.status.stdout, "\n"), LAMBDA line : line # "")
    IN  {[xy |-> SubSeq(lines[i], 1, 2), path |-> SubSeq(lines[i], 4, Len(lines[i]))] :
            i \in 1..Len(lines)}

\* C29: after git_status every entry of staged_files is the path of a line whose
\* first column is M, A, D or R, the path of every line " M" or " D" is in
\* unstaged_files, and every entry of the four lists is the whole path of a line
C29_StatusLists ==
    (call = "git_status" /\ ~outcome.raised) =>
        LET status == outcome.value
            Entries(list) == {list[i] : i \in 1..Len(list)}
        IN  /\ \A f \in Entries(status.staged_files) :
                    \E l \in C29_Printed : l.path = f /\ SubSeq(l.xy, 1, 1) \in {"M", "A", "D", "R"}
            /\ \A l \in C29_Printed :
                    l.xy \in {" M", " D"} => l.path \in Entries(status.unstaged_files)
            /\ \A f \in Entries(status.staged_files) \cup Entries(status.unstaged_files)
                        \cup Entries(status.conflicts) \cup Entries(status.untracked_files) :
                    \E l \in C29_Printed : l.path = f

=============================================================================
